---- MODULE Spec2Model ----
(***************************************************************************)
(* MingJing: sensitive-data detection pipeline.                            *)
(*                                                                         *)
(* The module models four parts of the program:                            *)
(*   - the LLM verifier (presidio_analyzer/nlp_engine/llm_verifier.py)     *)
(*     and the /analyze handler that uses it (backend/main.py);            *)
(*   - the rules manager (backend/config/rules_manager.py);                *)
(*   - the report generator's risk score                                   *)
(*     (backend/core/reporters/report_generator.py).                       *)
(*                                                                         *)
(* Scores are floats in [0,1] in the program; the model keeps them in      *)
(* tenths (0..10), so 0.5 is 5 and 1.0 is 10.                              *)
(***************************************************************************)
EXTENDS Integers, Sequences, FiniteSets, TLC

VARIABLES
    pc,            \* position of the /analyze request: "start" | "done"
    req,           \* the request and what the analyzer engine returned for it
    backend,       \* what the verification backend answers for result i, if called
    verifier,      \* engine_provider.verifier
    out,           \* what /analyze produced
    rules,         \* RulesManager._rules
    ret,           \* return value of the last rules-manager call
    file_results,  \* ReportGenerator._file_results
    report,        \* ReportGenerator._report
    call,          \* a call of a recognizer's or the masking engine's function
    retval,        \* what that call returned
    batch,         \* FileProcessor.process_files / process_directory in progress
    rules_file,    \* the entries of all_rules.yaml
    registry,      \* the recognizer registry built at start-up
    threads,       \* the threads inside verify_single
    client,        \* the verifier's lazily created _client / _model, _tokenizer
    engine         \* settings.yaml, the settings, the LLM manager and the engine

vars ==
    <<pc, req, backend, verifier, out, rules, ret, file_results, report,
      call, retval, batch, rules_file, registry, threads, client, engine>>

analyzeVars == <<pc, req, backend, verifier, out>>
rulesVars == <<rules, ret>>
riskVars == <<file_results, report>>
callVars == <<call, retval>>
bootVars == <<rules_file, registry>>
threadVars == <<threads, client>>
extVars == <<callVars, batch, bootVars, threadVars, engine>>

(***************************************************************************)
(* Bounds of the model.                                                    *)
(***************************************************************************)
MaxResults == 2        \* results the analyzer engine returns for one request
MaxTextLen == 3        \* length of a text a rule is tested against
MaxEntities == 2       \* entities added one by one to a report
MaxFileResults == 1    \* file results added whole to a report

Max(a, b) == IF a >= b THEN a ELSE b
Min(a, b) == IF a <= b THEN a ELSE b

\* All sequences over S of length at most n.
SeqsUpTo(S, n) == UNION {[1..k -> S] : k \in 0..n}

(***************************************************************************)
(* Backend responses.                                                      *)
(*                                                                         *)
(* A response text is a sequence of lines.  A line is blank, a code-fence  *)
(* marker (```...), a whole JSON value, junk, or a one-line fenced value   *)
(* (```{...}```).  A JSON object carries is_sensitive ("absent", "true",   *)
(* "false", "null") and confidence (kind ck: "absent", "num", "str",       *)
(* "null"; value cv in tenths when ck = "num").                            *)
(***************************************************************************)
Line(t, is, ck, cv) == [t |-> t, is |-> is, ck |-> ck, cv |-> cv]

Blank == Line("blank", "absent", "absent", 0)
Fence == Line("fence", "absent", "absent", 0)
Junk == Line("junk", "absent", "absent", 0)
Array == Line("array", "absent", "absent", 0)
Obj(is, ck, cv) == Line("object", is, ck, cv)
InlineFenced(is, ck, cv) == Line("inline_fenced", is, ck, cv)

\* A backend reply: an exception raised by the call, a None content, or a text.
Raise(e) == [exc |-> e, content |-> "None", lines |-> <<>>]
NoContent == [exc |-> "none", content |-> "None", lines |-> <<>>]
TextOf(ls) == [exc |-> "none", content |-> "text", lines |-> ls]

(***************************************************************************)
(* BaseLLMVerifier.parse_response                                          *)
(***************************************************************************)
DefaultConfidence == 5      \* data.get("confidence", 0.5)
FallbackConfidence == 5     \* return True, 0.5, "..." on a parse failure
CallFailureConfidence == 5  \* True, 0.5 when the call or the parsing raised

RECURSIVE LStrip(_)
LStrip(ls) ==
    IF ls # <<>> /\ ls[1].t = "blank" THEN LStrip(Tail(ls)) ELSE ls

RECURSIVE RStrip(_)
RStrip(ls) ==
    IF ls # <<>> /\ ls[Len(ls)].t = "blank"
    THEN RStrip(SubSeq(ls, 1, Len(ls) - 1))
    ELSE ls

\* response.strip()
Strip(ls) == RStrip(LStrip(ls))

\* response.startswith("```")
StartsWithFence(ls) == ls # <<>> /\ ls[1].t \in {"fence", "inline_fenced"}

\* "\n".join(response.split("\n")[1:-1])
DropFirstAndLastLine(ls) == SubSeq(ls, 2, Len(ls) - 1)

RECURSIVE NonBlank(_)
NonBlank(ls) ==
    IF ls = <<>> THEN <<>>
    ELSE IF ls[1].t = "blank" THEN NonBlank(Tail(ls))
    ELSE <<ls[1]>> \o NonBlank(Tail(ls))

\* json.loads: the text must hold exactly one JSON value (white space around it
\* is allowed); a fence marker, junk or a second value is a JSONDecodeError.
JsonLoads(ls) ==
    LET nb == NonBlank(ls) IN
    IF Len(nb) = 1 /\ nb[1].t \in {"object", "array"}
    THEN [ok |-> TRUE, val |-> nb[1]]
    ELSE [ok |-> FALSE, val |-> Junk]

Parsed(e, is, c) == [exc |-> e, is_sensitive |-> is, confidence |-> c]

ParseFallbackDropsSpan == Parsed("none", "false", FallbackConfidence)
\* except (json.JSONDecodeError, KeyError, ValueError): return True, 0.5, ...
ParseFallback == Parsed("none", "true", FallbackConfidence)

\* data.get("is_sensitive", False)
GetIsSensitive(data) == IF data.is = "absent" THEN "false" ELSE data.is

\* What parse_response returns, or the exception it lets through (exc).
ParseResponse(reply) ==
    IF reply.content = "None"
    THEN Parsed("AttributeError", "false", 0)        \* None.strip()
    ELSE
      LET stripped == Strip(reply.lines)
          body == IF StartsWithFence(stripped)
                  THEN DropFirstAndLastLine(stripped)
                  ELSE stripped
          j == JsonLoads(body)
      IN  IF ~j.ok THEN ParseFallback                 \* JSONDecodeError
          ELSE IF j.val.t # "object"
          THEN Parsed("AttributeError", "false", 0)   \* data.get on a non-dict
          ELSE
            CASE j.val.ck = "absent" ->
                   Parsed("none", GetIsSensitive(j.val), DefaultConfidence)
              [] j.val.ck = "num" ->
                   Parsed("none", GetIsSensitive(j.val), j.val.cv)
              [] j.val.ck = "str" -> ParseFallback    \* float("high"): ValueError
              [] OTHER -> Parsed("TypeError", "false", 0)  \* float(None)

(***************************************************************************)
(* BaseLLMVerifier.verify_single                                           *)
(***************************************************************************)
\* Python truthiness of the is_sensitive value: true is truthy; false and
\* None are not.
Truthy(is) == is = "true"

FinalScoreIsConfidence(is, original_score, confidence) ==
    IF Truthy(is) THEN confidence ELSE 0
\* if is_sensitive: max(original_score, confidence) else: 0.0
FinalScore(is, original_score, confidence) ==
    IF Truthy(is) THEN Max(original_score, confidence) ELSE 0

CatchesParseErrorsOnly(e) == e \in {"JSONDecodeError", "KeyError", "ValueError"}
\* except Exception: every exception of the call and of the parsing is caught
\* (all of them derive from Exception).
CatchesException(e) == e # "none"

Verification(e, is, c, original_score) ==
    [some |-> TRUE, exc |-> e, is_sensitive |-> is, confidence |-> c,
     original_score |-> original_score,
     final_score |-> FinalScore(is, original_score, c)]

\* (result, None)
NoVerification ==
    [some |-> FALSE, exc |-> "none", is_sensitive |-> "false", confidence |-> 0,
     original_score |-> 0, final_score |-> 0]

\* reply is what self._call_llm(prompt) does for this span.
VerifySingle(original_score, reply) ==
    LET parsed == IF reply.exc # "none"
                  THEN Parsed(reply.exc, "false", 0)
                  ELSE ParseResponse(reply)
    IN  IF parsed.exc = "none"
        THEN Verification("none", parsed.is_sensitive, parsed.confidence,
                          original_score)
        ELSE IF CatchesException(parsed.exc)
        THEN Verification("none", "true", CallFailureConfidence, original_score)
        ELSE Verification(parsed.exc, "false", 0, original_score)

(***************************************************************************)
(* BaseLLMVerifier.verify_results                                          *)
(***************************************************************************)
NeedsVerificationAtThreshold(score, threshold) == score <= threshold
\* if result.score < self.score_threshold
NeedsVerification(score, threshold) == score < threshold

\* [(result, verification or None)], in the order of results.
VerifyResults(results, replies, threshold) ==
    [i \in 1..Len(results) |->
        [result |-> results[i],
         verification |->
            IF NeedsVerification(results[i].score, threshold)
            THEN VerifySingle(results[i].score, replies[i])
            ELSE NoVerification]]

(***************************************************************************)
(* Texts.  A text is a sequence of characters; an ASCII character is a     *)
(* one-letter string, a CJK character is written by its pinyin ("zhang"    *)
(* for U+5F20).                                                            *)
(***************************************************************************)
UpperChars == {"G", "H"}
LowerChars ==
    {"a", "b", "c", "d", "e", "f", "g", "h", "i", "j", "k", "l", "m", "n", "o", "p",
     "q", "r", "s", "t", "u", "v", "w", "x", "y", "z"}
DigitChars == {"1", "3", "8"}
AsciiChars == UpperChars \cup LowerChars \cup DigitChars

\* str.lower()
LowerChar(ch) ==
    CASE ch = "G" -> "g"
      [] ch = "H" -> "h"
      [] OTHER -> ch
Lower(s) == [i \in 1..Len(s) |-> LowerChar(s[i])]

\* str.isascii()
IsAscii(s) == \A i \in 1..Len(s) : s[i] \in AsciiChars

\* str.islower(): no cased character is upper case and one at least is cased
IsLower(s) ==
    /\ \A i \in 1..Len(s) : s[i] \notin UpperChars
    /\ \E i \in 1..Len(s) : s[i] \in LowerChars

\* text[start:end] for 0 <= start <= end <= len(text)
Slice(text, start, end) == SubSeq(text, start + 1, end)

\* FALSE_POSITIVE_NAMES
FALSE_POSITIVE_NAMES == {
    <<"g", "i", "t", "h", "u", "b">>, <<"s", "l", "a", "c", "k">>,
    <<"d", "o", "c", "k", "e", "r">>, <<"r", "e", "d", "i", "s">>,
    <<"m", "y", "s", "q", "l">>, <<"n", "g", "i", "n", "x">>,
    <<"a", "p", "a", "c", "h", "e">>, <<"l", "i", "n", "u", "x">>,
    <<"w", "i", "n", "d", "o", "w", "s">>, <<"m", "a", "c", "o", "s">>,
    <<"p", "y", "t", "h", "o", "n">>, <<"j", "a", "v", "a">>,
    <<"g", "o", "l", "a", "n", "g">>, <<"r", "u", "s", "t">>,
    <<"k", "u", "b", "e", "r", "n", "e", "t", "e", "s">>,
    <<"j", "e", "n", "k", "i", "n", "s">>, <<"g", "i", "t", "l", "a", "b">>,
    <<"b", "i", "t", "b", "u", "c", "k", "e", "t">>, <<"a", "w", "s">>,
    <<"a", "z", "u", "r", "e">>, <<"g", "c", "p">>, <<"g", "h", "p">>,
    <<"g", "h", "o">>, <<"g", "h", "s">>, <<"g", "h", "u">>,
    <<"x", "o", "x", "b">>, <<"x", "o", "x", "p">>, <<"zhao">>, <<"qian">>,
    <<"sun">>, <<"li">>, <<"zhou">>, <<"wu">>, <<"zheng">>, <<"wang">>,
    <<"feng">>, <<"chen">>
    }

(***************************************************************************)
(* filter_false_positives                                                  *)
(***************************************************************************)
KeepsResult(r, text) ==
    LET entity_text == Slice(text, r.start, r.end) IN
    /\ r.entity_type = "PERSON" =>
         /\ ~(Len(entity_text) <= 1)
         /\ Lower(entity_text) \notin FALSE_POSITIVE_NAMES
         /\ ~(IsAscii(entity_text) /\ IsLower(entity_text)
                /\ Len(entity_text) < 5)
    /\ r.entity_type # "DATE_TIME"

RECURSIVE filter_false_positives(_, _)
filter_false_positives(results, text) ==
    IF results = <<>> THEN <<>>
    ELSE (IF KeepsResult(results[1], text) THEN <<results[1]>> ELSE <<>>)
         \o filter_false_positives(Tail(results), text)

(***************************************************************************)
(* POST /analyze                                                           *)
(***************************************************************************)
\* results = [r for r in results if r.score >= request.score_threshold]
RECURSIVE FilterLowScores(_, _)
FilterLowScores(results, score_threshold) ==
    IF results = <<>> THEN <<>>
    ELSE (IF results[1].score >= score_threshold THEN <<results[1]>> ELSE <<>>)
         \o FilterLowScores(Tail(results), score_threshold)

EntityResult(r, score, verified) ==
    [entity_type |-> r.entity_type, start |-> r.start, end |-> r.end,
     score |-> score, verified |-> verified]

\* The loop over (original, verification) of the LLM branch.
RECURSIVE VerifiedEntityResults(_)
VerifiedEntityResults(verified) ==
    IF verified = <<>> THEN <<>>
    ELSE LET original == verified[1].result
             verification == verified[1].verification
         IN  (IF verification.some
              THEN IF Truthy(verification.is_sensitive)
                   THEN <<EntityResult(original, verification.final_score, TRUE)>>
                   ELSE <<>>
              ELSE <<EntityResult(original, original.score, FALSE)>>)
             \o VerifiedEntityResults(Tail(verified))

\* The loop of the branch without verification.
PlainEntityResults(results) ==
    [i \in 1..Len(results) |-> EntityResult(results[i], results[i].score, FALSE)]

\* An exception that verify_results lets through ends the request.
Propagates(verified) ==
    \E i \in 1..Len(verified) : verified[i].verification.exc # "none"

NoOutput == [entity_results |-> <<>>, verified |-> <<>>, error |-> FALSE]

AnalyzeText ==
    /\ pc = "start"
    /\ LET results == filter_false_positives(
                          FilterLowScores(req.results, req.score_threshold),
                          req.text)
       IN  IF req.use_llm_verify /\ verifier.present
           THEN LET verified ==
                        VerifyResults(results, backend, verifier.score_threshold)
                IN  out' = IF Propagates(verified)
                           THEN [entity_results |-> <<>>,
                                 verified |-> verified, error |-> TRUE]
                           ELSE [entity_results |-> VerifiedEntityResults(verified),
                                 verified |-> verified, error |-> FALSE]
           ELSE out' = [entity_results |-> PlainEntityResults(results),
                        verified |-> <<>>, error |-> FALSE]
    /\ pc' = "done"
    /\ UNCHANGED <<req, backend, verifier, rules, ret, file_results, report, extVars>>

(***************************************************************************)
(* Inputs of the /analyze request.                                         *)
(***************************************************************************)
\* "GitHub" + U+5F20 U+4E09 + "aws" + "1381": 15 characters.
Text ==
    <<"G", "i", "t", "H", "u", "b", "zhang", "san", "a", "w", "s",
      "1", "3", "8", "1">>

Result(type, start, end, score) ==
    [entity_type |-> type, start |-> start, end |-> end, score |-> score]

\* engine_provider.analyzer.analyze never returns the same span twice, nor a
\* span inside another span of the same entity type.
AnalyzerOutput(results) ==
    \A i, j \in 1..Len(results) :
        (i # j /\ results[i].entity_type = results[j].entity_type)
            => ~(results[j].start <= results[i].start
                    /\ results[i].end <= results[j].end)

Request(results, score_threshold, use_llm_verify) ==
    [text |-> Text, results |-> results, score_threshold |-> score_threshold,
     use_llm_verify |-> use_llm_verify]

Verifier(score_threshold) == [present |-> TRUE, score_threshold |-> score_threshold]
NoVerifier == [present |-> FALSE, score_threshold |-> 0]

\* What a backend may answer.
Replies ==
    { Raise("APITimeoutError"), Raise("ImportError"), NoContent,
      TextOf(<<Junk>>), TextOf(<<Array>>),
      TextOf(<<Obj("true", "num", 8)>>), TextOf(<<Obj("false", "num", 8)>>),
      TextOf(<<Obj("absent", "num", 8)>>), TextOf(<<Obj("null", "num", 8)>>),
      TextOf(<<Obj("true", "num", 2)>>), TextOf(<<Obj("true", "absent", 0)>>),
      TextOf(<<Obj("false", "str", 0)>>), TextOf(<<Obj("false", "null", 0)>>),
      TextOf(<<Fence, Obj("false", "num", 8), Fence>>),
      TextOf(<<Blank, Fence, Junk, Fence, Blank>>),
      TextOf(<<InlineFenced("false", "num", 8)>>),
      TextOf(<<Fence, Obj("true", "num", 8)>>),
      TextOf(<<Obj("true", "num", 15)>>) }

MockReplyAlwaysSensitive(default_is_sensitive, default_confidence) ==
    TextOf(<<Obj("true", "num", default_confidence)>>)

\* MockLLMVerifier._call_llm: json.dumps of the configured verdict.
MockReply(default_is_sensitive, default_confidence) ==
    TextOf(<<Obj(IF default_is_sensitive THEN "true" ELSE "false",
                 "num", default_confidence)>>)

\* The reply for a result that is not escalated is never asked for.
Unasked == MockReply(TRUE, 8)

\* The i-th result of a request of the verifier's specification.
VerifySpan(i, score) == Result("CN_PHONE", 4 * (i - 1), 4 * (i - 1) + 3, score)

\* The values of the parts a specification leaves alone.
NoCall == [fn |-> "none"]
NoResult == [fn |-> "none"]
CallIdle == call = NoCall /\ retval = NoResult
BatchIdle == batch = [mode |-> "none", docs |-> <<>>, future |-> <<>>, yielded |-> <<>>]
BootIdle == rules_file = <<>> /\ registry = {}
ThreadsIdle == threads = <<>> /\ client = [kind |-> "none"]
EngineIdle == engine = [state |-> "none"]
ExtIdle == CallIdle /\ BatchIdle /\ BootIdle /\ ThreadsIdle
RulesIdle == <<>>
RetIdle == [op |-> "none", ok |-> TRUE, text |-> <<>>, results |-> <<>>]
FileResultsIdle == <<>>
ReportIdle ==
    [generated |-> FALSE, risk_score |-> 0, risk_level |-> "low",
     total_entities |-> 0]

InitVerify ==
    /\ EngineIdle
    /\ ExtIdle
    /\ pc = "start"
    /\ \E threshold \in {5, 8} :
       \E k \in 0..MaxResults :
       \E scores \in [1..k -> {3, 5, 8}] :
         /\ verifier = Verifier(threshold)
         /\ req = Request([i \in 1..k |-> VerifySpan(i, scores[i])], 0, TRUE)
         /\ backend \in [1..k -> Replies]
         /\ \A i \in 1..k :
              ~NeedsVerification(scores[i], threshold) => backend[i] = Unasked
    /\ out = NoOutput
    /\ rules = RulesIdle
    /\ ret = RetIdle
    /\ file_results = FileResultsIdle
    /\ report = ReportIdle

NextVerify == AnalyzeText

SpecVerify == InitVerify /\ [][NextVerify]_vars

(***************************************************************************)
(* Claims about verification (checked under SpecVerify).                   *)
(***************************************************************************)
Range(f) == {f[i] : i \in DOMAIN f}

\* The text without surrounding white space and code-fence markers.
Unfenced(ls) ==
    LET s == Strip(ls) IN
    IF Len(s) >= 2 /\ s[1].t = "fence" /\ s[Len(s)].t = "fence"
    THEN SubSeq(s, 2, Len(s) - 1)
    ELSE IF Len(s) = 1 /\ s[1].t = "inline_fenced"
    THEN <<Obj(s[1].is, s[1].ck, s[1].cv)>>
    ELSE s

\* The reply is a text holding the expected JSON object: one object whose
\* confidence, when given, is a number.
IsExpectedObject(reply) ==
    /\ reply.exc = "none"
    /\ reply.content = "text"
    /\ LET nb == NonBlank(Unfenced(reply.lines)) IN
       /\ Len(nb) = 1
       /\ nb[1].t = "object"
       /\ nb[1].ck \in {"absent", "num"}

ExpectedObject(reply) == NonBlank(Unfenced(reply.lines))[1]

\* A response text that cannot be parsed as the expected object.
Unparsable(reply) ==
    reply.exc = "none" /\ reply.content = "text" /\ ~IsExpectedObject(reply)

Escalated(i) == out.verified[i].verification.some

\* C1: an escalated span whose backend response text cannot be parsed as the
\* expected JSON object (also after stripping code-fence markers) is resolved
\* is_sensitive = true with confidence 0.5, gets the final score
\* max(original score, 0.5) and is in the response with that score.
C1_UnparsableResponseRetained ==
    pc = "done" =>
      \A i \in 1..Len(out.verified) :
        LET r == out.verified[i].result
            v == out.verified[i].verification
        IN  (Escalated(i) /\ Unparsable(backend[i])) =>
              /\ ~out.error
              /\ v.is_sensitive = "true"
              /\ v.confidence = 5
              /\ v.final_score = Max(r.score, 5)
              /\ EntityResult(r, Max(r.score, 5), TRUE)
                    \in Range(out.entity_results)

\* C1 witness: a fenced junk response for a span of score 0.3, retained at 0.5.
C1_Witness ==
    /\ pc = "done"
    /\ \E i \in 1..Len(out.verified) :
         /\ Escalated(i)
         /\ backend[i] = TextOf(<<Blank, Fence, Junk, Fence, Blank>>)
         /\ out.verified[i].result.score = 3
         /\ EntityResult(out.verified[i].result, 5, TRUE)
               \in Range(out.entity_results)

\* C2: an exception or timeout raised by the backend while a span is verified
\* never leaves verify_single or verify_results: the request does not fail and
\* the span is resolved like the parse-failure fallback (sensitive, 0.5).
C2_BackendFailureCaught ==
    pc = "done" =>
      \A i \in 1..Len(out.verified) :
        LET r == out.verified[i].result
            v == out.verified[i].verification
        IN  (Escalated(i) /\ backend[i].exc # "none") =>
              /\ ~out.error
              /\ v.exc = "none"
              /\ v.is_sensitive = "true"
              /\ v.confidence = 5
              /\ v.final_score = Max(r.score, 5)

\* C2 witness: the backend timed out on an escalated span, which is retained.
C2_Witness ==
    /\ pc = "done"
    /\ ~out.error
    /\ \E i \in 1..Len(out.verified) :
         /\ Escalated(i)
         /\ backend[i] = Raise("APITimeoutError")
         /\ out.verified[i].verification.is_sensitive = "true"
         /\ \E e \in Range(out.entity_results) :
              e.start = out.verified[i].result.start /\ e.verified

\* C30: for every span whose original score lies in [0, 1], the final score
\* produced by verification lies in [0, 1], whatever confidence value the
\* backend response carries (scores in tenths).
C30_FinalScoreInUnitInterval ==
    pc = "done" =>
      \A i \in 1..Len(out.verified) :
        LET r == out.verified[i].result
            v == out.verified[i].verification
        IN  (Escalated(i) /\ r.score \in 0..10) => v.final_score \in 0..10

\* C3: the final score of an escalated span is max(original score, confidence)
\* when the verdict is sensitive, and the span is reported with that score;
\* it is 0 when the verdict is not sensitive, and the span is not reported.
C3_FinalScore ==
    pc = "done" /\ ~out.error =>
      \A i \in 1..Len(out.verified) :
        LET r == out.verified[i].result
            v == out.verified[i].verification
        IN  Escalated(i) =>
              IF v.is_sensitive = "true"
              THEN /\ v.final_score = Max(r.score, v.confidence)
                   /\ \A e \in Range(out.entity_results) :
                        e.start = r.start => e.score = Max(r.score, v.confidence)
                   /\ \E e \in Range(out.entity_results) : e.start = r.start
              ELSE /\ v.final_score = 0
                   /\ \A e \in Range(out.entity_results) : e.start # r.start

\* C3 witness: a sensitive verdict with a confidence below the original score
\* and a non-sensitive verdict, in one request.
C3_Witness ==
    /\ pc = "done"
    /\ \E i, j \in 1..Len(out.verified) :
         /\ Escalated(i) /\ Escalated(j)
         /\ backend[i] = TextOf(<<Obj("true", "num", 2)>>)
         /\ out.verified[i].verification.final_score = 3
         /\ backend[j] = TextOf(<<Obj("false", "num", 8)>>)
         /\ out.verified[j].verification.final_score = 0

\* C4: verify_results calls the backend for a result if and only if its score
\* is strictly below the verifier's threshold; a result at or above the
\* threshold gets no verification and is reported with its score unchanged.
C4_EscalationBelowThreshold ==
    (pc = "done" /\ req.use_llm_verify /\ verifier.present) =>
      /\ Len(out.verified) = Len(req.results)
      /\ \A i \in 1..Len(out.verified) :
           LET r == out.verified[i].result
               v == out.verified[i].verification
           IN  /\ r = req.results[i]
               /\ v.some <=> r.score < verifier.score_threshold
               /\ r.score >= verifier.score_threshold =>
                    /\ v = NoVerification
                    /\ ~out.error =>
                         EntityResult(r, r.score, FALSE)
                            \in Range(out.entity_results)

\* C4 witness: a result exactly at the threshold is not escalated while one
\* below it is.
C4_Witness ==
    /\ pc = "done"
    /\ \E i, j \in 1..Len(out.verified) :
         /\ out.verified[i].result.score = verifier.score_threshold
         /\ ~Escalated(i)
         /\ out.verified[j].result.score < verifier.score_threshold
         /\ Escalated(j)

\* C5 (as stated): escalation drops a span (final score 0) only when the
\* parsed response explicitly carries is_sensitive = false; a response that
\* parses as JSON but omits is_sensitive is treated as sensitive.
C5_DropOnlyOnExplicitFalse ==
    pc = "done" =>
      \A i \in 1..Len(out.verified) :
        LET v == out.verified[i].verification IN
        Escalated(i) =>
          /\ v.final_score = 0 =>
               /\ IsExpectedObject(backend[i])
               /\ ExpectedObject(backend[i]).is = "false"
          /\ (IsExpectedObject(backend[i])
                /\ ExpectedObject(backend[i]).is = "absent") =>
               v.is_sensitive = "true"

(***************************************************************************)
(* The /analyze request over what several recognizers return.              *)
(***************************************************************************)
\* (entity type, start, end) of the candidates the recognizers may return
\* for Text: "GitHub", the name, its first character, "aws", "aw", and spans
\* of three pattern recognizers.
TypedSpans ==
    { <<"PERSON", 0, 6>>, <<"PERSON", 6, 8>>, <<"PERSON", 6, 7>>,
      <<"PERSON", 8, 11>>, <<"PERSON", 8, 10>>,
      <<"CN_PHONE", 0, 10>>, <<"CN_ID_CARD", 5, 15>>, <<"DATE_TIME", 11, 15>> }

Candidates ==
    { Result(ts[1], ts[2], ts[3], score) : ts \in TypedSpans, score \in {3, 8} }

InitAnalyze ==
    /\ EngineIdle
    /\ ExtIdle
    /\ pc = "start"
    /\ \E results \in SeqsUpTo(Candidates, MaxResults) :
       \E score_threshold \in {0, 5} :
       \E use_llm_verify \in BOOLEAN :
       \E default_is_sensitive \in BOOLEAN :
         /\ AnalyzerOutput(results)
         /\ req = Request(results, score_threshold, use_llm_verify)
         /\ backend = [i \in 1..Len(results) |->
                          MockReply(default_is_sensitive, 8)]
    /\ verifier \in {NoVerifier, Verifier(5)}
    /\ out = NoOutput
    /\ rules = RulesIdle
    /\ ret = RetIdle
    /\ file_results = FileResultsIdle
    /\ report = ReportIdle

NextAnalyze == AnalyzeText

SpecAnalyze == InitAnalyze /\ [][NextAnalyze]_vars

Overlap(a, b) == a.start < b.end /\ b.start < a.end

\* C7 (as stated): the result set returned for one document holds no two
\* overlapping spans: a span is retained only if its start is at or after the
\* end of the last retained span, so of [0,10) and [5,15) only [0,10) is
\* returned.
C7_NoOverlappingSpans ==
    pc = "done" =>
      \A i, j \in 1..Len(out.entity_results) :
        i # j => ~Overlap(out.entity_results[i], out.entity_results[j])

\* The request went through a mock verifier with default_is_sensitive = false.
MockRejects ==
    /\ pc = "done"
    /\ req.use_llm_verify
    /\ verifier.present
    /\ backend = [i \in 1..Len(req.results) |-> MockReply(FALSE, 8)]

\* The response holds the result r with this score and verified flag.
InResponse(r, score, verified) ==
    \E k \in 1..Len(out.entity_results) :
        out.entity_results[k] = EntityResult(r, score, verified)

\* The response holds the span of r.
SpanInResponse(r) ==
    \E k \in 1..Len(out.entity_results) :
        /\ out.entity_results[k].entity_type = r.entity_type
        /\ out.entity_results[k].start = r.start
        /\ out.entity_results[k].end = r.end

\* C16: with a mock verifier configured with default_is_sensitive = false,
\* every span with a score strictly below the verifier's threshold ends with
\* final score 0 and is neither in the response nor counted (the count is the
\* length of the response, one record_entity per entry); the other spans are
\* returned with their own score.
C16_MockDropsEscalated ==
    MockRejects =>
        /\ ~out.error
        /\ \A i \in 1..Len(out.verified) :
             LET r == out.verified[i].result
                 v == out.verified[i].verification
             IN  IF r.score < verifier.score_threshold
                 THEN v.some /\ v.final_score = 0 /\ ~SpanInResponse(r)
                 ELSE ~v.some /\ InResponse(r, r.score, FALSE)
        /\ Len(out.entity_results) =
             Cardinality({i \in 1..Len(out.verified) :
                            out.verified[i].result.score >= verifier.score_threshold})

\* Of two spans the one below the threshold is dropped and the other is kept.
C16_Witness ==
    /\ MockRejects
    /\ Len(out.verified) = 2
    /\ out.verified[1].result.score = 3
    /\ out.verified[2].result.score = 8
    /\ Len(out.entity_results) = 1
    /\ out.entity_results[1].score = 8

(***************************************************************************)
(* Rules manager (backend/config/rules_manager.py).                        *)
(*                                                                         *)
(* A regex is one of "a+", "a*", "b+" (a greedy run of one character, at   *)
(* least one or possibly none) or "(", which does not compile.             *)
(***************************************************************************)
\* re.compile(regex) succeeds
RegexCompiles(regex) == regex # "("

\* PatternConfig
PatternConfig(regex) == [regex |-> regex, name |-> regex, score |-> 5]

RegexChar(regex) == IF regex \in {"a+", "a*"} THEN "a" ELSE "b"
RegexMatchesEmpty(regex) == regex = "a*"

\* Number of consecutive characters ch of text from the 0-based position pos.
RECURSIVE RunLength(_, _, _)
RunLength(text, pos, ch) ==
    IF pos < Len(text) /\ text[pos + 1] = ch
    THEN 1 + RunLength(text, pos + 1, ch)
    ELSE 0

\* regex.finditer(text) from position pos: the leftmost match at or after pos,
\* then the scan goes on from its end (one further after an empty match; an
\* empty match may follow a non-empty one at its end).
RECURSIVE FindIter(_, _, _)
FindIter(regex, text, pos) ==
    IF pos > Len(text) THEN <<>>
    ELSE LET n == RunLength(text, pos, RegexChar(regex)) IN
         IF n > 0
         THEN <<[start |-> pos, end |-> pos + n]>>
                 \o FindIter(regex, text, pos + n)
         ELSE IF RegexMatchesEmpty(regex)
         THEN <<[start |-> pos, end |-> pos]>>
                 \o FindIter(regex, text, pos + 1)
         ELSE FindIter(regex, text, pos + 1)

Rule(name, entity_type, patterns, source) ==
    [name |-> name, entity_type |-> entity_type, patterns |-> patterns,
     source |-> source, enabled |-> TRUE]

\* Rule.validate()
RuleValid(rule) ==
    /\ rule.name # ""
    /\ rule.entity_type # ""
    /\ rule.patterns # <<>>
    /\ \A i \in 1..Len(rule.patterns) : RegexCompiles(rule.patterns[i].regex)

\* Rule.is_builtin()
IsBuiltin(rule) == rule.source = "builtin"

\* del self._rules[name]
Without(rs, name) == [n \in (DOMAIN rs) \ {name} |-> rs[n]]

\* self._rules[name] = rule
With(rs, name, rule) ==
    [n \in (DOMAIN rs) \cup {name} |-> IF n = name THEN rule ELSE rs[n]]

Returned(op, ok) == [op |-> op, ok |-> ok, text |-> <<>>, results |-> <<>>]

\* RulesManager.add_rule
add_rule(rule) ==
    /\ IF ~RuleValid(rule) THEN
         /\ ret' = Returned("add_rule", FALSE)
         /\ UNCHANGED rules
       ELSE IF rule.name \in DOMAIN rules THEN
         /\ ret' = Returned("add_rule", FALSE)
         /\ UNCHANGED rules
       ELSE
         /\ rules' = With(rules, rule.name, [rule EXCEPT !.source = "custom"])
         /\ ret' = Returned("add_rule", TRUE)
    /\ UNCHANGED <<analyzeVars, riskVars, extVars>>

\* RulesManager.update_rule
update_rule(name, rule) ==
    /\ IF name \notin DOMAIN rules THEN
         /\ ret' = Returned("update_rule", FALSE)
         /\ UNCHANGED rules
       ELSE IF ~RuleValid(rule) THEN
         /\ ret' = Returned("update_rule", FALSE)
         /\ UNCHANGED rules
       ELSE
         LET old_rule == rules[name]
             new_rule == [rule EXCEPT !.source = old_rule.source]
         IN  IF IsBuiltin(old_rule) /\ name # new_rule.name THEN
               /\ ret' = Returned("update_rule", FALSE)
               /\ UNCHANGED rules
             ELSE
               /\ rules' = With(IF name # new_rule.name
                                THEN Without(rules, name)
                                ELSE rules,
                                new_rule.name, new_rule)
               /\ ret' = Returned("update_rule", TRUE)
    /\ UNCHANGED <<analyzeVars, riskVars, extVars>>

delete_rule_before_check(name) ==
    /\ IF name \notin DOMAIN rules THEN
         /\ ret' = Returned("delete_rule", FALSE)
         /\ UNCHANGED rules
       ELSE
         /\ rules' = Without(rules, name)
         /\ ret' = Returned("delete_rule", ~IsBuiltin(rules[name]))
    /\ UNCHANGED <<analyzeVars, riskVars, extVars>>
\* RulesManager.delete_rule
delete_rule(name) ==
    /\ IF name \notin DOMAIN rules THEN
         /\ ret' = Returned("delete_rule", FALSE)
         /\ UNCHANGED rules
       ELSE IF IsBuiltin(rules[name]) THEN
         /\ ret' = Returned("delete_rule", FALSE)
         /\ UNCHANGED rules
       ELSE
         /\ rules' = Without(rules, name)
         /\ ret' = Returned("delete_rule", TRUE)
    /\ UNCHANGED <<analyzeVars, riskVars, extVars>>

\* The matches of the patterns of a rule, pattern after pattern.
RECURSIVE PatternMatches(_, _)
PatternMatches(patterns, text) ==
    IF patterns = <<>> THEN <<>>
    ELSE LET pattern == patterns[1]
             matches == FindIter(pattern.regex, text, 0)
         IN  (IF RegexCompiles(pattern.regex)
              THEN [i \in 1..Len(matches) |->
                       [pattern_name |-> pattern.name,
                        text |-> Slice(text, matches[i].start, matches[i].end),
                        start |-> matches[i].start, end |-> matches[i].end,
                        score |-> pattern.score]]
              ELSE <<>>)                           \* except re.error: continue
             \o PatternMatches(Tail(patterns), text)

\* RulesManager.test_rule
test_rule(name, text) ==
    /\ ret' = [op |-> "test_rule", ok |-> TRUE, text |-> text,
               results |-> IF name \in DOMAIN rules
                           THEN PatternMatches(rules[name].patterns, text)
                           ELSE <<>>]
    /\ UNCHANGED <<rules, analyzeVars, riskVars, extVars>>

\* The rules file as loaded at start: one builtin rule and one custom rule.
LoadedRules ==
    With(With(<<>>, "cn_id_card",
              Rule("cn_id_card", "CN_ID_CARD", <<PatternConfig("a+")>>, "builtin")),
         "my_rule", Rule("my_rule", "MY_ENTITY", <<PatternConfig("b+")>>, "custom"))

RuleNames == {"cn_id_card", "my_rule", "other_rule"}

\* The rules a caller may pass: valid ones, and one of each invalid kind.
RuleInputs ==
    { Rule(n, "MY_ENTITY", ps, "custom") :
        n \in RuleNames,
        ps \in {<<PatternConfig("a+")>>, <<PatternConfig("a*")>>,
                <<PatternConfig("b+"), PatternConfig("a+")>>} }
    \cup { Rule("", "MY_ENTITY", <<PatternConfig("a+")>>, "custom"),
           Rule("my_rule", "", <<PatternConfig("a+")>>, "custom"),
           Rule("my_rule", "MY_ENTITY", <<>>, "custom"),
           Rule("my_rule", "MY_ENTITY", <<PatternConfig("(")>>, "custom"),
           Rule("other_rule", "MY_ENTITY", <<PatternConfig("(")>>, "custom") }

\* The non-empty texts over two characters.
TestTexts == SeqsUpTo({"a", "b"}, MaxTextLen) \ {<<>>}

InitRules ==
    /\ EngineIdle
    /\ ExtIdle
    /\ rules = LoadedRules
    /\ ret = RetIdle
    /\ pc = "idle"
    /\ req = Request(<<>>, 0, FALSE)
    /\ backend = <<>>
    /\ verifier = NoVerifier
    /\ out = NoOutput
    /\ file_results = FileResultsIdle
    /\ report = ReportIdle

NextRules ==
    \/ \E rule \in RuleInputs : add_rule(rule)
    \/ \E name \in RuleNames, rule \in RuleInputs : update_rule(name, rule)
    \/ \E name \in RuleNames : delete_rule(name)
    \/ \E name \in RuleNames, text \in TestTexts : test_rule(name, text)

SpecRules == InitRules /\ [][NextRules]_vars

BuiltinNames == {n \in DOMAIN LoadedRules : LoadedRules[n].source = "builtin"}

\* C6 (as stated): after any sequence of add_rule, update_rule and delete_rule
\* calls every builtin rule that existed initially is still registered under
\* its original name with source "builtin".
C6_BuiltinIdentityKept ==
    \A n \in BuiltinNames :
        /\ n \in DOMAIN rules
        /\ rules[n].name = n
        /\ rules[n].source = "builtin"

\* C24: an add_rule, update_rule or delete_rule call that reports failure
\* leaves the registered rules exactly as they were before the call.
C24_FailedCallChangesNothing ==
    [][(ret'.op \in {"add_rule", "update_rule", "delete_rule"} /\ ~ret'.ok)
           => rules' = rules]_vars

\* The delete of a builtin rule was refused after a rule had been added and
\* the custom rule of the file deleted; the builtin rule is still there.
C24_Witness ==
    /\ ret = Returned("delete_rule", FALSE)
    /\ DOMAIN rules = {"cn_id_card", "other_rule"}
    /\ rules["cn_id_card"] = LoadedRules["cn_id_card"]

\* C8 (as stated): every span produced for a text, by analysis and by testing
\* a rule against a text, satisfies 0 <= start < end <= len(text); no empty
\* span is produced, whatever regex the rule carries.
C8_SpansNonEmptyAndInText ==
    /\ pc = "done" =>
         \A e \in Range(out.entity_results) :
             0 <= e.start /\ e.start < e.end /\ e.end <= Len(req.text)
    /\ ret.op = "test_rule" =>
         \A m \in Range(ret.results) :
             0 <= m.start /\ m.start < m.end /\ m.end <= Len(ret.text)

(***************************************************************************)
(* Report generator (backend/core/reporters/report_generator.py).          *)
(***************************************************************************)
\* ReportGenerator.ENTITY_WEIGHTS.get(entity_type, ENTITY_WEIGHTS["default"])
EntityWeight(entity_type) ==
    CASE entity_type = "CN_ID_CARD" -> 10
      [] entity_type = "CN_BANK_CARD" -> 10
      [] entity_type = "CN_PASSPORT" -> 8
      [] entity_type = "CN_PHONE" -> 5
      [] entity_type = "CN_EMAIL" -> 3
      [] entity_type = "PERSON" -> 4
      [] entity_type = "CN_DRIVER_LICENSE" -> 6
      [] entity_type = "CN_MILITARY_ID" -> 8
      [] entity_type = "CN_SOCIAL_CREDIT_CODE" -> 5
      [] entity_type = "CN_JWT" -> 7
      [] entity_type = "CN_CLOUD_KEY" -> 9
      [] entity_type = "PRIVATE_KEY" -> 10
      [] entity_type = "DB_CONNECTION" -> 8
      [] OTHER -> 2

EntityInfo(entity_type, score) == [entity_type |-> entity_type, score |-> score]

FileResult(filename, entities, error) ==
    [filename |-> filename, entities |-> entities, error |-> error]

\* All entities of all file results, file after file.
RECURSIVE AllEntities(_)
AllEntities(frs) ==
    IF frs = <<>> THEN <<>> ELSE frs[1].entities \o AllEntities(Tail(frs))

\* int(weight * entity.score), the score in tenths
EntityRisk(entity) == (EntityWeight(entity.entity_type) * entity.score) \div 10

\* The loop of _calculate_risk: score += int(weight * entity.score)
RECURSIVE SumEntityRisk(_)
SumEntityRisk(entities) ==
    IF entities = <<>> THEN 0
    ELSE EntityRisk(entities[1]) + SumEntityRisk(Tail(entities))

\* The sum of weight * score over the entities, in tenths, not truncated.
RECURSIVE SumWeighted(_)
SumWeighted(entities) ==
    IF entities = <<>> THEN 0
    ELSE EntityWeight(entities[1].entity_type) * entities[1].score
            + SumWeighted(Tail(entities))

\* RISK_LEVELS, in the order of the dictionary.
RiskLevel(score) ==
    IF score >= 80 THEN "critical"
    ELSE IF score >= 60 THEN "high"
    ELSE IF score >= 40 THEN "medium"
    ELSE "low"

RiskScoreFloorOfSum(frs) == Min(SumWeighted(AllEntities(frs)) \div 10, 100)
RiskScoreUnclamped(frs) == SumEntityRisk(AllEntities(frs))
\* The score of _calculate_risk: min(score, 100)
RiskScore(frs) == Min(SumEntityRisk(AllEntities(frs)), 100)

\* ReportGenerator._calculate_risk
CalculateRisk(frs) ==
    [score |-> RiskScore(frs), level |-> RiskLevel(RiskScore(frs))]

\* Index of the first file result named filename, 0 when there is none.
RECURSIVE FindFile(_, _, _)
FindFile(frs, filename, i) ==
    IF i > Len(frs) THEN 0
    ELSE IF frs[i].filename = filename THEN i
    ELSE FindFile(frs, filename, i + 1)

\* Entities added one by one (the file results added whole carry an error or
\* are named "scan.zip").
AddedEntities(frs) ==
    Len(AllEntities(SelectSeq(frs, LAMBDA fr : fr.filename \in {"a.txt", "b.txt"})))

\* ReportGenerator.add_file_result
add_file_result(result) ==
    /\ Len(SelectSeq(file_results,
                     LAMBDA fr : fr.filename \notin {"a.txt", "b.txt"}))
          < MaxFileResults
    /\ file_results' = Append(file_results, result)
    /\ UNCHANGED <<report, analyzeVars, rulesVars, extVars>>

\* ReportGenerator.add_entity
add_entity(filename, entity_type, score) ==
    /\ AddedEntities(file_results) < MaxEntities
    /\ LET found == FindFile(file_results, filename, 1)
           frs == IF found = 0
                  THEN Append(file_results, FileResult(filename, <<>>, FALSE))
                  ELSE file_results
           k == IF found = 0 THEN Len(frs) ELSE found
       IN  file_results' =
             [frs EXCEPT ![k].entities =
                 Append(@, EntityInfo(entity_type, score))]
    /\ UNCHANGED <<report, analyzeVars, rulesVars, extVars>>

\* ReportGenerator.generate
generate ==
    /\ report' = [generated |-> TRUE,
                  risk_score |-> CalculateRisk(file_results).score,
                  risk_level |-> CalculateRisk(file_results).level,
                  total_entities |-> Len(AllEntities(file_results))]
    /\ UNCHANGED <<file_results, analyzeVars, rulesVars, extVars>>

\* AnalysisReport(file_results=self._file_results, ...): the report holds the
\* generator's list itself, not a copy of it.
Generated(frs) ==
    [generated |-> TRUE,
     risk_score |-> CalculateRisk(frs).score,
     risk_level |-> CalculateRisk(frs).level,
     total_entities |-> Len(AllEntities(frs))]

\* ReportGenerator.export_json: generate() only when there is no report yet;
\* what is written is the report with the list it holds, as it is now.
export_json ==
    /\ retval = NoResult
    /\ report' = IF ~report.generated THEN Generated(file_results) ELSE report
    /\ retval' = [fn |-> "export_json",
                  file_results |-> file_results,
                  risk_score |-> report'.risk_score,
                  risk_level |-> report'.risk_level,
                  total_entities |-> report'.total_entities]
    /\ UNCHANGED <<file_results, call, batch, bootVars, threadVars, engine,
                   analyzeVars, rulesVars>>

\* ReportGenerator.clear
clear ==
    /\ file_results' = <<>>
    /\ report' = ReportIdle
    /\ UNCHANGED <<analyzeVars, rulesVars, extVars>>

\* A file result of ten confirmed ID cards, and one of a file that failed.
FileResultInputs ==
    { FileResult("scan.zip",
                 [i \in 1..10 |-> EntityInfo("CN_ID_CARD", 10)], FALSE),
      FileResult("bad.pdf", <<>>, TRUE) }

\* (entity type, score) of the entities added one by one.
EntityInputs ==
    { <<"CN_ID_CARD", 10>>, <<"CN_EMAIL", 5>>, <<"CN_PHONE", 3>>,
      <<"UNKNOWN_TYPE", 0>> }

InitRisk ==
    /\ EngineIdle
    /\ ExtIdle
    /\ file_results = <<>>
    /\ report = ReportIdle
    /\ rules = RulesIdle
    /\ ret = RetIdle
    /\ pc = "idle"
    /\ req = Request(<<>>, 0, FALSE)
    /\ backend = <<>>
    /\ verifier = NoVerifier
    /\ out = NoOutput

\* A run is any sequence of calls, followed up to its first export.
NextRisk ==
    \/ /\ retval = NoResult
       /\ \E result \in FileResultInputs : add_file_result(result)
    \/ /\ retval = NoResult
       /\ \E filename \in {"a.txt", "b.txt"}, e \in EntityInputs :
             add_entity(filename, e[1], e[2])
    \/ /\ retval = NoResult
       /\ generate
    \/ /\ retval = NoResult
       /\ clear
    \/ export_json

SpecRisk == InitRisk /\ [][NextRisk]_vars

(***************************************************************************)
(* Claims about the risk score (checked under SpecRisk).                   *)
(***************************************************************************)
\* The report was generated from the entities the generator holds now.
ReportIsCurrent ==
    report.generated /\ report.total_entities = Len(AllEntities(file_results))

\* C29: after any sequence of add_file_result, add_entity, generate, export
\* and clear calls, an exported report agrees with the file results it
\* contains: its risk score, its risk level and its entity count are those
\* recomputed from them.
C29_ExportedReportConsistent ==
    retval.fn = "export_json" =>
        /\ retval.risk_score = CalculateRisk(retval.file_results).score
        /\ retval.risk_level = CalculateRisk(retval.file_results).level
        /\ retval.total_entities = Len(AllEntities(retval.file_results))

\* C9 (as stated): the risk score is min(100, floor(sum of weight * score))
\* with one floor applied to the whole sum; one confirmed ID card gives 10.
C9_FloorOfTheSum ==
    ReportIsCurrent =>
      /\ report.risk_score
           = Min(100, SumWeighted(AllEntities(file_results)) \div 10)
      /\ AllEntities(file_results) = <<EntityInfo("CN_ID_CARD", 10)>>
           => report.risk_score = 10

\* C9 (amended): the risk score is min(100, sum of floor(weight * score)), the
\* floor applied to each entity's term; one confirmed ID card gives 10.
C9_SumOfFloors ==
    ReportIsCurrent =>
      /\ report.risk_score = Min(100, SumEntityRisk(AllEntities(file_results)))
      /\ AllEntities(file_results) = <<EntityInfo("CN_ID_CARD", 10)>>
           => report.risk_score = 10

\* C9 witness: two e-mail entities of score 0.5 (1.5 each) give 2, not 3.
C9_Witness ==
    /\ ReportIsCurrent
    /\ AllEntities(file_results)
         = <<EntityInfo("CN_EMAIL", 5), EntityInfo("CN_EMAIL", 5)>>
    /\ report.risk_score = 2

\* C10: the risk score computed after any sequence of added entities lies in
\* [0,100], and a score computed earlier is never above the score of the
\* entities held now, whatever was added since.
C10_ClampedAndMonotonic ==
    /\ report.generated =>
         /\ 0 <= report.risk_score /\ report.risk_score <= 100
         /\ report.risk_score <= CalculateRisk(file_results).score
    /\ 0 <= CalculateRisk(file_results).score
    /\ CalculateRisk(file_results).score <= 100

\* C10 witness: a report of score 100 was generated, entities were added
\* since, and the weighted sum is now above 100.
C10_Witness ==
    /\ report.generated
    /\ report.risk_score = 100
    /\ report.total_entities < Len(AllEntities(file_results))
    /\ SumEntityRisk(AllEntities(file_results)) > 100
    /\ CalculateRisk(file_results).score = 100

(***************************************************************************)
(* Recognizers: validate_result and invalidate_result.                     *)
(*                                                                         *)
(* A matched text is a sequence of characters.  validate_result returns    *)
(* True, False or None; the model writes "True", "False", "None".          *)
(***************************************************************************)
Digits == <<"0", "1", "2", "3", "4", "5", "6", "7", "8", "9">>
LowerLetters ==
    <<"a", "b", "c", "d", "e", "f", "g", "h", "i", "j", "k", "l", "m",
      "n", "o", "p", "q", "r", "s", "t", "u", "v", "w", "x", "y", "z">>
UpperLetters ==
    <<"A", "B", "C", "D", "E", "F", "G", "H", "I", "J", "K", "L", "M",
      "N", "O", "P", "Q", "R", "S", "T", "U", "V", "W", "X", "Y", "Z">>

\* c in s
Occurs(c, s) == \E i \in 1..Len(s) : s[i] = c

\* s.index(c), counted from 0
Index(s, c) == (CHOOSE i \in 1..Len(s) : s[i] = c) - 1

\* str.isdigit() of one character
IsDigit(c) == Occurs(c, Digits)

\* int(c) of a digit character
IntOf(c) == Index(Digits, c)

\* str.upper()
UpperChar(c) == IF Occurs(c, LowerLetters) THEN UpperLetters[Index(LowerLetters, c) + 1] ELSE c
Upper(s) == [i \in 1..Len(s) |-> UpperChar(s[i])]

\* s.replace(c, "") for each character c of chars
RECURSIVE RemoveChars(_, _)
RemoveChars(s, chars) ==
    IF s = <<>> THEN <<>>
    ELSE (IF s[1] \in chars THEN <<>> ELSE <<s[1]>>) \o RemoveChars(Tail(s), chars)

\* s.startswith(prefix)
StartsWith(s, prefix) ==
    Len(s) >= Len(prefix) /\ SubSeq(s, 1, Len(prefix)) = prefix

\* s.replace(sub, ""), sub not empty
RECURSIVE RemoveSub(_, _)
RemoveSub(s, sub) ==
    IF s = <<>> THEN <<>>
    ELSE IF StartsWith(s, sub) THEN RemoveSub(SubSeq(s, Len(sub) + 1, Len(s)), sub)
    ELSE <<s[1]>> \o RemoveSub(Tail(s), sub)

\* len(set(s)) == 1
OneDistinctChar(s) == Len(s) >= 1 /\ \A i \in 1..Len(s) : s[i] = s[1]

\* sum(f[i] for i in 1..n)
RECURSIVE SumTo(_, _)
SumTo(f, n) == IF n = 0 THEN 0 ELSE f[n] + SumTo(f, n - 1)

(***************************************************************************)
(* CnIdCardRecognizer                                                      *)
(***************************************************************************)
IdCardWeightsShifted == <<9, 10, 5, 8, 4, 2, 1, 6, 3, 7, 9, 10, 5, 8, 4, 2, 7>>

\* CnIdCardRecognizer.WEIGHTS
IdCardWeights == <<7, 9, 10, 5, 8, 4, 2, 1, 6, 3, 7, 9, 10, 5, 8, 4, 2>>

\* CnIdCardRecognizer.CHECKSUM_MAP
IdCardChecksumMap == <<"1", "0", "X", "9", "8", "7", "6", "5", "4", "3", "2">>

\* CnIdCardRecognizer.VALID_PROVINCE_CODES
ValidProvinceCodes == {
    <<"1", "1">>, <<"1", "2">>, <<"1", "3">>, <<"1", "4">>, <<"1", "5">>, <<"2", "1">>,
    <<"2", "2">>, <<"2", "3">>, <<"3", "1">>, <<"3", "2">>, <<"3", "3">>, <<"3", "4">>,
    <<"3", "5">>, <<"3", "6">>, <<"3", "7">>, <<"4", "1">>, <<"4", "2">>, <<"4", "3">>,
    <<"4", "4">>, <<"4", "5">>, <<"4", "6">>, <<"5", "0">>, <<"5", "1">>, <<"5", "2">>,
    <<"5", "3">>, <<"5", "4">>, <<"6", "1">>, <<"6", "2">>, <<"6", "3">>, <<"6", "4">>,
    <<"6", "5">>, <<"7", "1">>, <<"8", "1">>, <<"8", "2">> }

\* CnIdCardRecognizer.validate_result
IdCardValidate(pattern_text) ==
    LET id_number == Upper(RemoveChars(pattern_text, {"-", " "}))
    IN  IF Len(id_number) # 18 THEN "False"
        ELSE IF SubSeq(id_number, 1, 2) \notin ValidProvinceCodes THEN "None"
        ELSE IF \E i \in 1..17 : ~IsDigit(id_number[i]) THEN "None"  \* ValueError
        ELSE LET total == SumTo([i \in 1..17 |->
                                    IntOf(id_number[i]) * IdCardWeights[i]], 17)
                 expected_checksum == IdCardChecksumMap[(total % 11) + 1]
                 actual_checksum == UpperChar(id_number[18])
             IN  IF actual_checksum = expected_checksum THEN "True" ELSE "None"

\* The check characters a matched text can end with: [\dXx].
IdCardCheckChars == Range(Digits) \cup {"X", "x"}

\* Matched texts: a province code, the body 01011990030745, a seventeenth
\* character and a check character; the same with separators; a short one.
IdCardTexts ==
    { prov \o <<"0", "1", "0", "1", "1", "9", "9", "0", "0", "3", "0", "7", "4", "5">> \o <<c17, c18>> :
        prov \in {<<"1", "1">>, <<"4", "4">>, <<"9", "9">>, <<"0", "0">>},
        c17 \in Range(Digits) \cup {"X"}, c18 \in IdCardCheckChars }
    \cup { <<"1", "1">> \o <<"-">> \o <<"0", "1", "0", "1", "1", "9", "9", "0", "0", "3", "0", "7", "4", "5">> \o <<"5", c18>> : c18 \in IdCardCheckChars }
    \cup { <<"1", "1">> \o <<"0", "1", "0", "1", "1", "9", "9", "0", "0", "3", "0", "7", "4", "5">> \o <<c17>> : c17 \in Range(Digits) }

\* The text with its last character replaced.
WithLastChar(text, c) == [i \in 1..Len(text) |-> IF i = Len(text) THEN c ELSE text[i]]

IdCardCalls ==
    { [fn |-> "id_card", text |-> text, altered |-> WithLastChar(text, c)] :
        text \in IdCardTexts, c \in {"X", "x", "4", "6"} }

\* validate_result of a matched text and of the text with another check
\* character.
id_card_validate ==
    /\ call.fn = "id_card"
    /\ retval = NoResult
    /\ retval' = [fn |-> "id_card",
                  value |-> IdCardValidate(call.text),
                  altered_value |-> IdCardValidate(call.altered)]
    /\ UNCHANGED <<call, batch, bootVars, threadVars, engine, analyzeVars, rulesVars, riskVars>>

(***************************************************************************)
(* PatternRecognizer: how a match's verdicts resolve to a score.           *)
(*   validate_result True -> 1.0, False -> 0, None -> the pattern's score; *)
(*   invalidate_result True -> 0; a match with score 0 is not reported.    *)
(*   The scores of the recognizers are in hundredths (0.45 is 45).         *)
(***************************************************************************)
Resolve(score, validation, invalidated) ==
    LET validated == CASE validation = "True" -> 100
                       [] validation = "False" -> 0
                       [] OTHER -> score
        final == IF invalidated THEN 0 ELSE validated
    IN  [score |-> final, reported |-> final > 0]

(***************************************************************************)
(* CnPhoneRecognizer                                                       *)
(***************************************************************************)
\* CnPhoneRecognizer.VALID_MOBILE_PREFIXES (the literal of the source)
ValidMobilePrefixes == {
    <<"1", "3", "0">>, <<"1", "3", "1">>, <<"1", "3", "2">>, <<"1", "3", "3">>, <<"1", "3", "4">>, <<"1", "3", "5">>,
    <<"1", "3", "6">>, <<"1", "3", "7">>, <<"1", "3", "8">>, <<"1", "3", "9">>, <<"1", "4", "5">>, <<"1", "4", "6">>,
    <<"1", "4", "7">>, <<"1", "4", "8">>, <<"1", "4", "9">>, <<"1", "5", "0">>, <<"1", "5", "1">>, <<"1", "5", "2">>,
    <<"1", "5", "3">>, <<"1", "5", "5">>, <<"1", "5", "6">>, <<"1", "5", "7">>, <<"1", "5", "8">>, <<"1", "5", "9">>,
    <<"1", "6", "2">>, <<"1", "6", "5">>, <<"1", "6", "6">>, <<"1", "6", "7">>, <<"1", "7", "0">>, <<"1", "7", "1">>,
    <<"1", "7", "2">>, <<"1", "7", "3">>, <<"1", "7", "4">>, <<"1", "7", "5">>, <<"1", "7", "6">>, <<"1", "7", "7">>,
    <<"1", "7", "8">>, <<"1", "8", "0">>, <<"1", "8", "1">>, <<"1", "8", "2">>, <<"1", "8", "3">>, <<"1", "8", "4">>,
    <<"1", "8", "5">>, <<"1", "8", "6">>, <<"1", "8", "7">>, <<"1", "8", "8">>, <<"1", "8", "9">>, <<"1", "9", "0">>,
    <<"1", "9", "1">>, <<"1", "9", "2">>, <<"1", "9", "3">>, <<"1", "9", "5">>, <<"1", "9", "6">>, <<"1", "9", "7">>,
    <<"1", "9", "8">>, <<"1", "9", "9">> }

\* The separators and the country code are removed.
PhoneNormalize(pattern_text) ==
    RemoveSub(RemoveSub(RemoveChars(pattern_text, {"-", " ", "(", ")"}),
                        <<"+", "8", "6">>), <<"0", "0", "8", "6">>)

\* CnPhoneRecognizer.validate_result
PhoneValidate(pattern_text) ==
    LET phone == PhoneNormalize(pattern_text)
    IN  IF Len(phone) = 11 /\ StartsWith(phone, <<"1">>)
        THEN IF SubSeq(phone, 1, 3) \in ValidMobilePrefixes THEN "True" ELSE "None"
        ELSE IF StartsWith(phone, <<"0">>)
        THEN IF Len(phone) = 11 /\ (StartsWith(phone, <<"0", "1", "0">>) \/ phone[2] = "2")
             THEN "True"
             ELSE IF Len(phone) \in {11, 12} /\ phone[2] # "0" THEN "True"
             ELSE "None"
        ELSE IF (StartsWith(phone, <<"4", "0", "0">>) \/ StartsWith(phone, <<"8", "0", "0">>)) /\ Len(phone) = 10
        THEN "True"
        ELSE "None"

PhoneSequentialPatterns == {
    <<"1", "2", "3", "4", "5", "6", "7", "8", "9", "0", "1">>,
    <<"1", "0", "9", "8", "7", "6", "5", "4", "3", "2", "1">>,
    <<"1", "1", "1", "1", "1", "1", "1", "1", "1", "1", "1">>,
    <<"0", "0", "0", "0", "0", "0", "0", "0", "0", "0", "0">>,
    <<"1", "0", "0", "0", "0", "0", "0", "0", "0", "0", "0">> }

\* CnPhoneRecognizer.invalidate_result
PhoneInvalidate(pattern_text) ==
    LET phone == PhoneNormalize(pattern_text)
    IN  \/ OneDistinctChar(phone)
        \/ phone \in PhoneSequentialPatterns
        \/ /\ \/ StartsWith(phone, <<"1", "0", "0">>)
              \/ StartsWith(phone, <<"1", "1", "0">>)
              \/ StartsWith(phone, <<"1", "2", "0">>)
           /\ Len(phone) = 11

(***************************************************************************)
(* CnBankCardRecognizer                                                    *)
(***************************************************************************)
\* digits[::-1]
Reverse(s) == [i \in 1..Len(s) |-> s[Len(s) + 1 - i]]

LuhnStepNoFold(i, d) == IF i % 2 = 1 THEN d * 2 ELSE d

\* One turn of the loop of _luhn_checksum: the digit d at index i (from 0)
\* of the reversed number, as it is added to the checksum.
LuhnStep(i, d) ==
    IF i % 2 = 1
    THEN (IF d * 2 > 9 THEN d * 2 - 9 ELSE d * 2)
    ELSE d

\* CnBankCardRecognizer._luhn_checksum
LuhnChecksum(card_number) ==
    LET digits == Reverse([i \in 1..Len(card_number) |-> IntOf(card_number[i])])
        checksum == SumTo([i \in 1..Len(digits) |-> LuhnStep(i - 1, digits[i])],
                          Len(digits))
    IN  checksum % 10 = 0

\* CnBankCardRecognizer.validate_result
BankCardValidate(pattern_text) ==
    LET card_number == RemoveChars(pattern_text, {"-", " "})
    IN  IF Len(card_number) < 15 \/ Len(card_number) > 19 THEN "False"
        ELSE IF \E i \in 1..Len(card_number) : ~IsDigit(card_number[i]) THEN "False"
        ELSE IF LuhnChecksum(card_number) THEN "True"
        ELSE "None"

BankCardSequentialPatterns == {
    <<"1", "2", "3", "4", "5", "6", "7", "8", "9", "0", "1", "2", "3", "4", "5", "6">>,
    <<"0", "1", "2", "3", "4", "5", "6", "7", "8", "9", "0", "1", "2", "3", "4", "5">>,
    <<"0", "0", "0", "0", "0", "0", "0", "0", "0", "0", "0", "0", "0", "0", "0", "0">>,
    <<"1", "1", "1", "1", "1", "1", "1", "1", "1", "1", "1", "1", "1", "1", "1", "1">>,
    <<"9", "9", "9", "9", "9", "9", "9", "9", "9", "9", "9", "9", "9", "9", "9", "9">> }
BankCardInvalidPrefixes == {<<"0", "0", "0", "0">>, <<"1", "1", "1", "1">>, <<"9", "9", "9", "9">>, <<"0", "1", "2", "3">>}

BankCardInvalidateKeepsRepeats(pattern_text) ==
    LET card_number == RemoveChars(pattern_text, {"-", " "})
    IN  \/ \E pattern \in BankCardSequentialPatterns :
              card_number = SubSeq(pattern, 1, Min(Len(card_number), Len(pattern)))
        \/ \E prefix \in BankCardInvalidPrefixes : StartsWith(card_number, prefix)

\* CnBankCardRecognizer.invalidate_result
BankCardInvalidate(pattern_text) ==
    LET card_number == RemoveChars(pattern_text, {"-", " "})
    IN  \/ OneDistinctChar(card_number)
        \/ \E pattern \in BankCardSequentialPatterns :
              card_number = SubSeq(pattern, 1, Min(Len(card_number), Len(pattern)))
        \/ \E prefix \in BankCardInvalidPrefixes : StartsWith(card_number, prefix)

(***************************************************************************)
(* CnSocialCreditCodeRecognizer                                            *)
(***************************************************************************)
\* CnSocialCreditCodeRecognizer.<<"0", "1", "2", "3", "4", "5", "6", "7", "8", "9", "A", "B", "C", "D", "E", "F", "G", "H", "J", "K", "L", "M", "N", "P", "Q", "R", "T", "U", "W", "X", "Y">>_CHARS
SocialCreditValidChars ==
    <<"0", "1", "2", "3", "4", "5", "6", "7", "8", "9", "A", "B", "C", "D", "E", "F", "G", "H", "J", "K", "L", "M", "N", "P", "Q", "R", "T", "U", "W", "X", "Y">>

SocialCreditWeightsReversed ==
    <<28, 30, 10, 24, 8, 13, 25, 29, 20, 17, 16, 26, 19, 27, 9, 3, 1>>

\* CnSocialCreditCodeRecognizer.WEIGHTS
SocialCreditWeights ==
    <<1, 3, 9, 27, 19, 26, 16, 17, 20, 29, 25, 13, 8, 24, 10, 30, 28>>

\* CnSocialCreditCodeRecognizer.validate_result
SocialCreditValidate(pattern_text) ==
    LET code == Upper(RemoveChars(pattern_text, {"-", " "}))
    IN  IF Len(code) # 18 THEN FALSE
        ELSE IF \E i \in 1..18 : ~Occurs(code[i], SocialCreditValidChars) THEN FALSE
        ELSE LET total == SumTo([i \in 1..17 |->
                                    Index(SocialCreditValidChars, code[i])
                                        * SocialCreditWeights[i]], 17)
                 remainder == total % 31
                 expected_check == SocialCreditValidChars[((31 - remainder) % 31) + 1]
             IN  code[18] = expected_check

\* c is a digit of lo..hi
DigitIn(c, lo, hi) == IsDigit(c) /\ IntOf(c) \in lo..hi

\* [0-9]{n}: s[from..] holds exactly n more characters, all digits
DigitsFrom(s, from, n) ==
    Len(s) = from + n - 1 /\ \A i \in from..Len(s) : IsDigit(s[i])

\* [3-6][0-9]{3}([-\s][0-9]{4}){groups}[-\s][0-9]{last}
SeparatedCard(s, groups, last) ==
    /\ Len(s) = 4 + 5 * groups + 1 + last
    /\ DigitIn(s[1], 3, 6)
    /\ \A i \in 2..Len(s) :
         IF i % 5 = 0 THEN s[i] \in {"-", " "} ELSE IsDigit(s[i])

\* CnBankCardRecognizer.PATTERNS: the patterns that match the whole of s, with
\* their scores (the look-arounds are about the text around s).
BankCardPatterns(s) ==
    { p \in { [name |-> "UnionPay 16", score |-> 50,
               matches |-> StartsWith(s, <<"6", "2">>) /\ DigitsFrom(s, 3, 14)],
              [name |-> "UnionPay 19", score |-> 50,
               matches |-> StartsWith(s, <<"6", "2">>) /\ DigitsFrom(s, 3, 17)],
              [name |-> "Visa", score |-> 45,
               matches |-> StartsWith(s, <<"4">>) /\ DigitsFrom(s, 2, 15)],
              [name |-> "MasterCard", score |-> 45,
               matches |->
                 \/ StartsWith(s, <<"5">>) /\ Len(s) >= 2 /\ DigitIn(s[2], 1, 5)
                       /\ DigitsFrom(s, 3, 14)
                 \/ StartsWith(s, <<"2", "2">>) /\ Len(s) >= 3 /\ DigitIn(s[3], 2, 9)
                       /\ DigitsFrom(s, 4, 12)
                 \/ StartsWith(s, <<"2">>) /\ Len(s) >= 2 /\ DigitIn(s[2], 3, 6)
                       /\ DigitsFrom(s, 3, 13)
                 \/ StartsWith(s, <<"2", "7">>) /\ Len(s) >= 3 /\ DigitIn(s[3], 0, 1)
                       /\ DigitsFrom(s, 4, 12)
                 \/ StartsWith(s, <<"2", "7", "2", "0">>) /\ DigitsFrom(s, 5, 12)],
              [name |-> "JCB", score |-> 45,
               matches |-> StartsWith(s, <<"3", "5">>) /\ DigitsFrom(s, 3, 14)],
              [name |-> "Amex", score |-> 45,
               matches |-> StartsWith(s, <<"3">>) /\ Len(s) >= 2 /\ s[2] \in {"4", "7"}
                              /\ DigitsFrom(s, 3, 13)],
              [name |-> "Separated 16", score |-> 45,
               matches |-> SeparatedCard(s, 2, 4)],
              [name |-> "Separated 19", score |-> 45,
               matches |-> SeparatedCard(s, 3, 3)],
              [name |-> "Generic", score |-> 30,
               matches |-> Len(s) >= 1 /\ DigitIn(s[1], 3, 6)
                              /\ \E n \in 15..18 : DigitsFrom(s, 2, n)] } :
          p.matches }

(***************************************************************************)
(* CnIpAddressRecognizer                                                   *)
(***************************************************************************)
\* s.split(c)
RECURSIVE Split(_, _)
Split(s, c) ==
    IF ~Occurs(c, s) THEN <<s>>
    ELSE LET i == Index(s, c) + 1
         IN  <<SubSeq(s, 1, i - 1)>> \o Split(SubSeq(s, i + 1, Len(s)), c)

\* int(part) of a string of digits
RECURSIVE IntValue(_)
IntValue(part) ==
    IF part = <<>> THEN 0
    ELSE 10 * IntValue(SubSeq(part, 1, Len(part) - 1)) + IntOf(part[Len(part)])

\* int(part) raises ValueError
IntRaises(part) == part = <<>> \/ \E i \in 1..Len(part) : ~IsDigit(part[i])

\* CnIpAddressRecognizer.validate_result
IpValidate(pattern_text) ==
    LET ip == Split(pattern_text, ":")[1]
        parts == Split(ip, ".")
    IN  IF Len(parts) # 4 THEN "False"
        ELSE IF \E k \in 1..4 : IntRaises(parts[k]) THEN "False"
        ELSE LET nums == [k \in 1..4 |-> IntValue(parts[k])]
             IN  IF \E k \in 1..4 : nums[k] < 0 \/ nums[k] > 255 THEN "False"
                 ELSE IF nums[1] = 10 THEN "True"
                 ELSE IF nums[1] = 172 /\ 16 <= nums[2] /\ nums[2] <= 31 THEN "True"
                 ELSE IF nums[1] = 192 /\ nums[2] = 168 THEN "True"
                 ELSE IF nums[1] = 127 THEN "True"
                 ELSE "None"

\* CnIpAddressRecognizer.invalidate_result
IpInvalidate(pattern_text) ==
    LET ip == Split(pattern_text, ":")[1]
        parts == Split(ip, ".")
    IN  Len(parts) = 4 /\ SubSeq(parts, 2, 4) = <<<<"0">>, <<"0">>, <<"0">>>>

\* [A-Fa-f0-9]{1,4}
HexGroup(g) ==
    /\ Len(g) \in 1..4
    /\ \A i \in 1..Len(g) :
         IsDigit(g[i]) \/ g[i] \in {"a", "b", "c", "d", "e", "f",
                                    "A", "B", "C", "D", "E", "F"}

\* CnIpAddressRecognizer.PATTERNS: the IPv6 patterns that match the whole of
\* s, with their scores.
IpV6Patterns(s) ==
    LET groups == Split(s, ":")
        n == Len(groups)
    IN  { p \in { [name |-> "IPv6 Address", score |-> 50,
                   matches |-> n = 8 /\ \A k \in 1..n : HexGroup(groups[k])],
                  [name |-> "IPv6 Compressed", score |-> 40,
                   matches |-> /\ n \in 3..9
                               /\ groups[n] = <<>> /\ groups[n - 1] = <<>>
                               /\ \A k \in 1..(n - 2) : HexGroup(groups[k])] } :
              p.matches }

(***************************************************************************)
(* Calls of the recognizers.                                               *)
(***************************************************************************)
\* A text made of n times the character c.
Repeat(c, n) == [i \in 1..n |-> c]

\* Matched texts of the phone and bank-card recognizers: one repeated digit,
\* and numbers of the tests.
\* Mobile numbers: a carrier prefix (160 is no carrier's) and eight digits.
MobileNumbers ==
    { prefix \o tail :
        prefix \in {<<"1", "3", "8">>, <<"1", "9", "9">>, <<"1", "7", "0">>, <<"1", "6", "0">>},
        tail \in {<<"1", "2", "3", "4", "5", "6", "7", "8">>, <<"0", "0", "8", "6", "1", "2", "3", "4">>, <<"1", "0", "0", "8", "6", "1", "2", "3">>, <<"8", "8", "8", "8", "8", "8", "8", "8">>} }

\* The ways a mobile number is written: plain, with separators, with +86 or
\* 0086 in front.
WrittenForms(n) ==
    { n,
      SubSeq(n, 1, 3) \o <<"-">> \o SubSeq(n, 4, 7) \o <<"-">> \o SubSeq(n, 8, 11),
      SubSeq(n, 1, 3) \o <<" ">> \o SubSeq(n, 4, 7) \o <<" ">> \o SubSeq(n, 8, 11),
      <<"+", "8", "6">> \o n,
      <<"+", "8", "6", "-">> \o n,
      <<"0", "0", "8", "6">> \o n }

NumberTexts ==
    { Repeat(c, n) : c \in Range(Digits), n \in {10, 11, 12, 15, 16, 17, 18, 19} }
    \cup UNION { WrittenForms(n) : n \in MobileNumbers }
    \cup { <<"6", "2", "2", "2", "0", "2", "1", "2", "3", "4", "5", "6", "7", "8", "9", "0", "0", "0", "0">>, <<"6", "2", "2", "2", " ", "0", "2", "1", "2", " ", "3", "4", "5", "6", " ", "7", "8", "9", "0">>, <<"4", "5", "3", "2", "0", "1", "5", "1", "1", "2", "8", "3", "0", "3", "6", "7">> }
    \cup { <<"1", "3", "8", "1", "2", "3", "4", "5", "6", "7", "8">>, <<"1", "3", "8", "-", "1", "2", "3", "4", "-", "5", "6", "7", "8">>, <<"+", "8", "6", "1", "3", "8", "1", "2", "3", "4", "5", "6", "7", "8">>, <<"1", "2", "3", "4", "5", "6", "7", "8", "9", "0", "1">>, <<"0", "1", "0", "-", "1", "2", "3", "4", "5", "6", "7", "8">>, <<"4", "0", "0", "1", "2", "3", "4", "5", "6", "7">>, <<"1", "6", "0", "1", "2", "3", "4", "5", "6", "7", "8">>,
           <<"4", "5", "3", "2", "0", "1", "5", "1", "1", "2", "8", "3", "0", "3", "6", "6">>, <<"1", "2", "3", "4", "5", "6", "7", "8", "9", "0", "1", "2", "3", "4", "5", "6">>, <<"6", "2", "2", "2", "0", "2", "1", "2", "3", "4", "5", "6", "7", "8", "9", "0", "1", "2", "3">>, <<"4", "5", "3", "2", "-", "0", "1", "5", "1", "-", "1", "2", "8", "3", "-", "0", "3", "6", "6">>, <<"4", "5", "3", "2", "0", "1", "5", "1", "1", "2", "8", "3", "0", "3", "6", "X">> }

RecognizeCalls ==
    { [fn |-> fn, text |-> text, score |-> score] :
        fn \in {"phone", "bank_card"}, text \in NumberTexts, score \in {30, 45, 50} }

\* Card numbers: two numbers of the tests with their last two digits varied,
\* and short digit strings.
LuhnTexts ==
    { head \o <<d1, d2>> :
        head \in {<<"4", "5", "3", "2", "0", "1", "5", "1", "1", "2", "8", "3", "0", "3">>, <<"1", "2", "3", "4", "5", "6", "7", "8", "9", "0", "1", "2", "3", "4">>},
        d1 \in Range(Digits), d2 \in Range(Digits) }
    \cup { Repeat(c, n) : c \in Range(Digits), n \in 0..2 }

LuhnCalls == { [fn |-> "luhn", text |-> text] : text \in LuhnTexts }

\* Codes: 91350100M000100Y with a seventeenth and a check symbol, in upper
\* and lower case and with separators, and a short one.
SocialCreditSymbols ==
    {"0", "3", "4", "9", "A", "Y", "y", "q", "Q", "I", "O", "S", "V", "Z", "i", "*"}
SocialCreditTexts ==
    { head \o <<c17, c18>> :
        head \in {<<"9", "1", "3", "5", "0", "1", "0", "0", "M", "0", "0", "0", "1", "0", "0", "Y">>, <<"9", "1", "3", "5", "0", "1", "0", "0", "m", "0", "0", "0", "1", "0", "0", "y">>},
        c17 \in SocialCreditSymbols, c18 \in SocialCreditSymbols }
    \cup { <<"9", "1", "3", "5", "0", "1", "0", "0", "-", "M", "0", "0", "0", "1", "0", "0", "Y", "4">> \o <<c18>> : c18 \in SocialCreditSymbols }
    \cup { <<"9", "1", "3", "5", "0", "1", "0", "0", "M", "0", "0", "0", "1", "0", "0", "Y">> \o <<c17>> : c17 \in SocialCreditSymbols }

SocialCreditCalls ==
    { [fn |-> "social_credit", text |-> text] : text \in SocialCreditTexts }

\* Matched texts of the IP recognizer: IPv6 and IPv4 addresses, with a port,
\* and a version number.
IpTexts ==
    { <<"2", "0", "0", "1", ":", "0", "d", "b", "8", ":", "8", "5", "a", "3", ":", "0", "0", "0", "0", ":", "0", "0", "0", "0", ":", "8", "a", "2", "e", ":", "0", "3", "7", "0", ":", "7", "3", "3", "4">>,
      <<"2", "0", "0", "1", ":", "d", "b", "8", ":", "0", ":", "0", ":", "0", ":", "0", ":", "0", ":", "1">>, <<"F", "E", "8", "0", ":", ":">>, <<"f", "e", "8", "0", ":", "1", ":", "2", ":", ":">>,
      <<"1", "9", "2", ".", "1", "6", "8", ".", "1", ".", "1">>, <<"1", "0", ".", "0", ".", "0", ".", "1", ":", "8", "0", "8", "0">>, <<"8", ".", "8", ".", "8", ".", "8">>, <<"1", "2", "7", ".", "0", ".", "0", ".", "1">>,
      <<"1", ".", "0", ".", "0", ".", "0">>, <<"1", "7", "2", ".", "3", "2", ".", "0", ".", "1">>, <<"1", "7", "2", ".", "1", "6", ".", "2", "5", "4", ".", "3">> }

IpCalls ==
    { [fn |-> "ip", text |-> text, score |-> score] :
        text \in IpTexts, score \in {40, 50, 70} }

ip_recognize ==
    /\ call.fn = "ip"
    /\ retval = NoResult
    /\ LET validation == IpValidate(call.text)
           invalidated == IpInvalidate(call.text)
       IN  retval' = [fn |-> "ip", validation |-> validation,
                      invalidated |-> invalidated,
                      resolved |-> Resolve(call.score, validation, invalidated)]
    /\ UNCHANGED <<call, batch, bootVars, threadVars, engine, analyzeVars, rulesVars, riskVars>>

\* The recognizer's verdicts for a matched text, and what becomes of the match.
phone_recognize ==
    /\ call.fn = "phone"
    /\ retval = NoResult
    /\ LET validation == PhoneValidate(call.text)
           invalidated == PhoneInvalidate(call.text)
       IN  retval' = [fn |-> "phone", validation |-> validation,
                      invalidated |-> invalidated,
                      resolved |-> Resolve(call.score, validation, invalidated)]
    /\ UNCHANGED <<call, batch, bootVars, threadVars, engine, analyzeVars, rulesVars, riskVars>>

bank_card_recognize ==
    /\ call.fn = "bank_card"
    /\ retval = NoResult
    /\ LET validation == BankCardValidate(call.text)
           invalidated == BankCardInvalidate(call.text)
       IN  retval' = [fn |-> "bank_card", validation |-> validation,
                      invalidated |-> invalidated,
                      resolved |-> Resolve(call.score, validation, invalidated)]
    /\ UNCHANGED <<call, batch, bootVars, threadVars, engine, analyzeVars, rulesVars, riskVars>>

luhn_checksum ==
    /\ call.fn = "luhn"
    /\ retval = NoResult
    /\ retval' = [fn |-> "luhn", value |-> LuhnChecksum(call.text)]
    /\ UNCHANGED <<call, batch, bootVars, threadVars, engine, analyzeVars, rulesVars, riskVars>>

social_credit_validate ==
    /\ call.fn = "social_credit"
    /\ retval = NoResult
    /\ retval' = [fn |-> "social_credit", value |-> SocialCreditValidate(call.text)]
    /\ UNCHANGED <<call, batch, bootVars, threadVars, engine, analyzeVars, rulesVars, riskVars>>

\* The values of the /analyze, rules and report parts when they are left alone.
CoreIdle ==
    /\ pc = "idle"
    /\ req = Request(<<>>, 0, FALSE)
    /\ backend = <<>>
    /\ verifier = NoVerifier
    /\ out = NoOutput
    /\ rules = RulesIdle
    /\ ret = RetIdle
    /\ file_results = FileResultsIdle
    /\ report = ReportIdle

InitRecognize ==
    /\ EngineIdle
    /\ CoreIdle
    /\ BatchIdle /\ BootIdle /\ ThreadsIdle
    /\ call \in IdCardCalls \cup RecognizeCalls \cup LuhnCalls \cup SocialCreditCalls
                \cup IpCalls
    /\ retval = NoResult

NextRecognize ==
    \/ id_card_validate
    \/ phone_recognize
    \/ bank_card_recognize
    \/ luhn_checksum
    \/ social_credit_validate
    \/ ip_recognize

SpecRecognize == InitRecognize /\ [][NextRecognize]_vars

(***************************************************************************)
(* Claims about the recognizers.                                           *)
(***************************************************************************)
\* GB 11643-1999: the weights of the first seventeen digits and the check
\* character of each remainder.
GB11643Weights == <<7, 9, 10, 5, 8, 4, 2, 1, 6, 3, 7, 9, 10, 5, 8, 4, 2>>
GB11643Alphabet == <<"1", "0", "X", "9", "8", "7", "6", "5", "4", "3", "2">>
GB11643Check(text) ==
    GB11643Alphabet[
        (SumTo([i \in 1..17 |-> GB11643Weights[i] * IntOf(text[i])], 17) % 11) + 1]

\* An 18-character number with an allowed province code was validated.
IdCardCase ==
    /\ retval.fn = "id_card"
    /\ Len(call.text) = 18
    /\ SubSeq(call.text, 1, 2) \in ValidProvinceCodes
    /\ \A i \in 1..17 : IsDigit(call.text[i])

LuhnTotal(text) ==
    LET n == Len(text)
        term(k) == LET d == IntOf(text[n + 1 - k])
                   IN  IF k % 2 = 0
                       THEN (IF 2 * d > 9 THEN 2 * d - 9 ELSE 2 * d)
                       ELSE d
    IN  SumTo([k \in 1..n |-> term(k)], n)

\* C19: the Luhn check accepts a digit string exactly when its Luhn total is
\* divisible by 10; it accepts 4532015112830366 and rejects 1234567890123456.
C19_LuhnAccepts ==
    retval.fn = "luhn" =>
        /\ retval.value <=> (LuhnTotal(call.text) % 10 = 0)
        /\ call.text = <<"4", "5", "3", "2", "0", "1", "5", "1", "1", "2", "8", "3", "0", "3", "6", "6">> => retval.value
        /\ call.text = <<"1", "2", "3", "4", "5", "6", "7", "8", "9", "0", "1", "2", "3", "4", "5", "6">> => ~retval.value

C19_Witness ==
    /\ retval.fn = "luhn"
    /\ call.text = <<"4", "5", "3", "2", "0", "1", "5", "1", "1", "2", "8", "3", "0", "3", "6", "6">>
    /\ retval.value

\* GB 32100-2015: the digits and the letters without I, O, S, V, Z, and the
\* weights of the first seventeen symbols.
GB32100Alphabet ==
    SelectSeq(Digits \o UpperLetters, LAMBDA c : c \notin {"I", "O", "S", "V", "Z"})
GB32100Weights ==
    <<1, 3, 9, 27, 19, 26, 16, 17, 20, 29, 25, 13, 8, 24, 10, 30, 28>>
GB32100Accepts(code) ==
    /\ \A i \in 1..18 : Occurs(code[i], GB32100Alphabet)
    /\ code[18] =
         GB32100Alphabet[
            ((31 - (SumTo([i \in 1..17 |->
                            GB32100Weights[i] * Index(GB32100Alphabet, code[i])],
                          17) % 31)) % 31) + 1]

\* C20 (as stated): an 18-symbol code is accepted exactly when every symbol
\* is in the 31-symbol alphabet and the 18th symbol is the GB 32100-2015
\* check symbol of the first 17.
C20_SocialCreditAccepts ==
    (retval.fn = "social_credit" /\ Len(call.text) = 18)
        => (retval.value <=> GB32100Accepts(call.text))

\* C20 (amended): the same of the code with its letters in upper case.
C20_SocialCreditAcceptsIgnoringCase ==
    (retval.fn = "social_credit" /\ Len(call.text) = 18)
        => (retval.value <=> GB32100Accepts(Upper(call.text)))

\* The code 91350100m000100y43, in lower case, is accepted.
C20_Witness ==
    /\ retval.fn = "social_credit"
    /\ call.text = <<"9", "1", "3", "5", "0", "1", "0", "0", "m", "0", "0", "0", "1", "0", "0", "y", "4", "3">>
    /\ retval.value

\* The call validated a written form of an 11-digit mobile number whose
\* first three digits are a carrier prefix.
ValidMobileCase ==
    /\ call.fn = "phone"
    /\ retval # NoResult
    /\ \E n \in MobileNumbers :
         /\ SubSeq(n, 1, 3) \in ValidMobilePrefixes
         /\ call.text \in WrittenForms(n)

\* C21: every 11-digit mobile number with a carrier prefix of the allow-list
\* is Confirmed by the phone validator and resolves to score 1.0, whatever
\* its other eight digits and however it is written.
C21_ValidPrefixConfirmed ==
    ValidMobileCase =>
        /\ retval.validation = "True"
        /\ retval.resolved.score = 100

\* A pattern of the bank-card recognizer with the call's score matched the
\* text, and the number fails the Luhn check.
LuhnFailedCase ==
    /\ call.fn = "bank_card"
    /\ retval # NoResult
    /\ \E p \in BankCardPatterns(call.text) : p.score = call.score
    /\ ~LuhnChecksum(RemoveChars(call.text, {"-", " "}))

\* C22: a bank-card candidate whose number fails the Luhn check is dropped
\* or reported with a score strictly below 0.5, whichever pattern matched.
C22_LuhnFailureBelowHalf ==
    LuhnFailedCase => (~retval.resolved.reported \/ retval.resolved.score < 50)

\* An IPv6 pattern of the IP recognizer with the call's score matched the text.
IpV6Case ==
    /\ call.fn = "ip"
    /\ retval # NoResult
    /\ \E p \in IpV6Patterns(call.text) : p.score = call.score

\* C26: an IPv6 address matched by an IPv6 pattern is reported as an IP
\* candidate; the validator does not reject it for not being dotted-quad.
C26_IPv6Reported ==
    IpV6Case => (retval.validation # "False" /\ retval.resolved.reported)

(***************************************************************************)
(* The masking engine (backend/main.py).                                   *)
(***************************************************************************)
MaxMaskResults == 2    \* results handed to _apply_masks_to_text
MaxLeaves == 2         \* members of a zip archive

\* value[a:b] for 0 <= a, 0 <= b
PySlice(s, a, b) ==
    IF Min(a, Len(s)) >= Min(b, Len(s)) THEN <<>>
    ELSE SubSeq(s, Min(a, Len(s)) + 1, Min(b, Len(s)))

\* value[-n:] for n > 0
LastChars(s, n) == PySlice(s, Max(0, Len(s) - n), Len(s))

\* '*' * n
Stars(n) == [i \in 1..Max(0, n) |-> "*"]

\* '●' * n
Bullets(n) == [i \in 1..Max(0, n) |-> "U+25CF"]

\* value.find('@'): the index of the first '@', -1 without one
FindAt(value) ==
    IF Occurs("@", value)
    THEN (CHOOSE i \in 1..Len(value) :
              value[i] = "@" /\ \A j \in 1..(i - 1) : value[j] # "@") - 1
    ELSE -1

MaskValueKeepsFour(entity_type, value) ==
    PySlice(value, 0, 4) \o Stars(4) \o PySlice(value, 8, Len(value))
\* _mask_value
MaskValue(entity_type, value) ==
    LET length == Len(value)
    IN  IF value = <<>> THEN value
        ELSE CASE entity_type = "CN_PHONE" ->
                    IF length = 11
                    THEN PySlice(value, 0, 3) \o Stars(4) \o PySlice(value, 7, length)
                    ELSE PySlice(value, 0, Min(3, length)) \o Stars(4)
               [] entity_type = "CN_ID_CARD" ->
                    IF length = 18
                    THEN PySlice(value, 0, 4) \o Stars(10) \o PySlice(value, 14, length)
                    ELSE IF length = 15
                    THEN PySlice(value, 0, 4) \o Stars(7) \o PySlice(value, 11, length)
                    ELSE PySlice(value, 0, 4) \o Stars(Max(0, length - 8))
                         \o PySlice(value, Max(4, length - 4), length)
               [] entity_type = "CN_BANK_CARD" ->
                    IF length >= 16
                    THEN PySlice(value, 0, 4)
                         \o <<" ", "*", "*", "*", "*", " ", "*", "*", "*", "*", " ">>
                         \o LastChars(value, 4)
                    ELSE PySlice(value, 0, 4) \o Stars(4)
                         \o PySlice(value, Max(4, length - 4), length)
               [] entity_type = "CN_EMAIL" ->
                    LET at_index == FindAt(value)
                    IN  IF at_index > 0
                        THEN LET local_part == PySlice(value, 0, at_index)
                                 domain == PySlice(value, at_index, length)
                             IN  IF Len(local_part) <= 3
                                 THEN <<local_part[1]>> \o Stars(3) \o domain
                                 ELSE PySlice(local_part, 0, 3) \o Stars(3) \o domain
                        ELSE PySlice(value, 0, 3) \o Stars(3)
               [] entity_type = "PERSON" ->
                    IF length = 2 THEN <<value[1]>> \o Stars(1)
                    ELSE IF length = 3 THEN <<value[1]>> \o Stars(2)
                    ELSE IF length >= 4 THEN PySlice(value, 0, 2) \o Stars(length - 2)
                    ELSE <<value[1]>> \o Stars(1)
               [] entity_type \in {"CN_PASSPORT", "CN_DRIVER_LICENSE", "CN_MILITARY_ID"} ->
                    IF length > 4
                    THEN PySlice(value, 0, 2) \o Stars(length - 4) \o LastChars(value, 2)
                    ELSE Stars(3)
               [] entity_type = "CN_VEHICLE_PLATE" ->
                    IF length >= 7
                    THEN PySlice(value, 0, 2) \o Stars(4) \o LastChars(value, 1)
                    ELSE PySlice(value, 0, 2) \o Stars(4)
               [] entity_type = "LOCATION" ->
                    IF length > 10 THEN PySlice(value, 0, 6) \o Stars(3)
                    ELSE PySlice(value, 0, Min(4, length)) \o Stars(3)
               [] OTHER -> Bullets(length)

\* sorted(results, key=lambda r: r.start): a stable insertion by start
RECURSIVE SortedByStart(_)
SortedByStart(results) ==
    IF results = <<>> THEN <<>>
    ELSE LET rest == SortedByStart(Tail(results))
             r == results[1]
             before == SelectSeq(rest, LAMBDA x : x.start < r.start)
             after == SelectSeq(rest, LAMBDA x : x.start >= r.start)
         IN  before \o <<r>> \o after

SkipsOverlapNever(start, last_end) == FALSE

\* if start < last_end: continue
SkipsOverlap(start, last_end) == start < last_end

\* The loop of _apply_masks_to_text over the sorted results: the parts it
\* appends, the results it masks and the last_end it ends with.
RECURSIVE MaskLoop(_, _, _)
MaskLoop(text, sorted_results, last_end) ==
    IF sorted_results = <<>>
    THEN [parts |-> <<>>, masked |-> <<>>, last_end |-> last_end]
    ELSE LET r == sorted_results[1]
         IN  IF SkipsOverlap(r.start, last_end)
             THEN MaskLoop(text, Tail(sorted_results), last_end)
             ELSE LET rest == MaskLoop(text, Tail(sorted_results), r.end)
                  IN  [parts |-> PySlice(text, last_end, r.start)
                                 \o MaskValue(r.entity_type, PySlice(text, r.start, r.end))
                                 \o rest.parts,
                       masked |-> <<r>> \o rest.masked,
                       last_end |-> rest.last_end]

\* _apply_masks_to_text; masked names the results that were masked.
ApplyMasksToText(text, results) ==
    IF results = <<>> THEN [text |-> text, masked |-> <<>>]
    ELSE LET loop == MaskLoop(text, SortedByStart(results), 0)
         IN  [text |-> loop.parts \o PySlice(text, loop.last_end, Len(text)),
              masked |-> loop.masked]

\* A member of a well-formed zip archive: its extension, whether its
\* format's library can open it, and whether its text holds something the
\* analyzer reports.
Leaf(ext, readable, pii) == [ext |-> ext, readable |-> readable, pii |-> pii]

TextExts == {".txt", ".log", ".md", ".csv", ".tsv", ".json", ".jsonl"}

\* What a leaf function returns: the bytes with the entities masked, the
\* bytes as they were, or an exception.
Redacted(leaf) == IF leaf.pii THEN "masked" ELSE "unmodified"

\* anonymize_text_bytes: decode(errors="ignore") does not fail.
AnonymizeTextBytes(leaf) == Redacted(leaf)

\* anonymize_docx_bytes: without python-docx the data is returned; Document()
\* of data that is no DOCX raises.
AnonymizeDocxBytes(leaf, has_docx) ==
    IF ~has_docx THEN "unmodified"
    ELSE IF ~leaf.readable THEN "raise"
    ELSE Redacted(leaf)

\* anonymize_xlsx_bytes: load_workbook failing returns the data.
AnonymizeXlsxBytes(leaf) ==
    IF ~leaf.readable THEN "unmodified" ELSE Redacted(leaf)

\* The body of the loop of anonymize_zip_bytes for one member.
ZipMember(leaf, has_docx) ==
    IF leaf.ext \in TextExts THEN AnonymizeTextBytes(leaf)
    ELSE IF leaf.ext = ".docx" THEN AnonymizeDocxBytes(leaf, has_docx)
    ELSE IF leaf.ext \in {".xlsx", ".xls"} THEN AnonymizeXlsxBytes(leaf)
    ELSE "unmodified"

\* anonymize_zip_bytes: the members of the archive it returns.  An exception
\* in the loop returns the data it was given.
AnonymizeZipBytes(leaves, has_docx) ==
    LET members == [i \in 1..Len(leaves) |-> ZipMember(leaves[i], has_docx)]
    IN  IF \E i \in 1..Len(leaves) : members[i] = "raise"
        THEN [raised |-> FALSE, leaves |-> [i \in 1..Len(leaves) |-> "unmodified"]]
        ELSE [raised |-> FALSE, leaves |-> members]

(***************************************************************************)
(* Calls of the masking engine.                                            *)
(***************************************************************************)
MaskText == <<"a", "b", "c", "d", "e">>

MaskResults ==
    { Result(type, start, end, 10) :
        type \in {"CN_PHONE", "PERSON"},
        start \in 0..(Len(MaskText) - 1), end \in 1..Len(MaskText) }

MaskCalls ==
    { [fn |-> "mask", text |-> MaskText, results |-> results] :
        results \in { rs \in SeqsUpTo(MaskResults, MaxMaskResults) :
                        \A i \in 1..Len(rs) : rs[i].start < rs[i].end } }

Leaves ==
    { Leaf(".txt", TRUE, TRUE), Leaf(".txt", TRUE, FALSE), Leaf(".csv", TRUE, TRUE),
      Leaf(".docx", TRUE, TRUE), Leaf(".docx", TRUE, FALSE), Leaf(".docx", FALSE, TRUE),
      Leaf(".xlsx", TRUE, TRUE), Leaf(".xlsx", FALSE, TRUE),
      Leaf(".png", TRUE, TRUE) }

ZipCalls ==
    { [fn |-> "zip", leaves |-> leaves, has_docx |-> has_docx] :
        leaves \in SeqsUpTo(Leaves, MaxLeaves), has_docx \in BOOLEAN }

\* Values handed to _mask_value: phone numbers as they are written, and
\* shorter texts.
MaskValueCalls ==
    { [fn |-> "mask_value", entity_type |-> entity_type, value |-> value] :
        entity_type \in {"CN_PHONE", "CN_ID_CARD", "CN_IP"},
        value \in UNION { WrittenForms(n) : n \in MobileNumbers }
                   \cup {<<>>, <<"1", "3">>, <<"1", "3", "8", "1", "2", "3", "4">>} }

mask_value ==
    /\ call.fn = "mask_value"
    /\ retval = NoResult
    /\ retval' = [fn |-> "mask_value", value |-> MaskValue(call.entity_type, call.value)]
    /\ UNCHANGED <<call, batch, bootVars, threadVars, engine, analyzeVars, rulesVars, riskVars>>

apply_masks_to_text ==
    /\ call.fn = "mask"
    /\ retval = NoResult
    /\ LET r == ApplyMasksToText(call.text, call.results)
       IN  retval' = [fn |-> "mask", text |-> r.text, masked |-> r.masked]
    /\ UNCHANGED <<call, batch, bootVars, threadVars, engine, analyzeVars, rulesVars, riskVars>>

anonymize_zip_bytes ==
    /\ call.fn = "zip"
    /\ retval = NoResult
    /\ LET r == AnonymizeZipBytes(call.leaves, call.has_docx)
       IN  retval' = [fn |-> "zip", raised |-> r.raised, leaves |-> r.leaves]
    /\ UNCHANGED <<call, batch, bootVars, threadVars, engine, analyzeVars, rulesVars, riskVars>>

InitMask ==
    /\ EngineIdle
    /\ CoreIdle
    /\ BatchIdle /\ BootIdle /\ ThreadsIdle
    /\ call \in MaskCalls \cup ZipCalls \cup MaskValueCalls
    /\ retval = NoResult

NextMask == apply_masks_to_text \/ anonymize_zip_bytes \/ mask_value

SpecMask == InitMask /\ [][NextMask]_vars

(***************************************************************************)
(* Claims about the masking engine.                                        *)
(***************************************************************************)
\* _mask_value masked an 11-digit phone number.
PhoneMaskCase ==
    /\ retval.fn = "mask_value"
    /\ call.entity_type = "CN_PHONE"
    /\ call.value \in MobileNumbers

\* C23: the mask of an 11-digit phone number is its first 3 digits, exactly
\* 4 asterisks and its last 4 digits; 13812345678 becomes 138****5678.
C23_PhoneMaskKeepsThreeAndFour ==
    PhoneMaskCase =>
        /\ retval.value = SubSeq(call.value, 1, 3) \o <<"*", "*", "*", "*">>
                              \o SubSeq(call.value, 8, 11)
        /\ call.value = <<"1", "3", "8", "1", "2", "3", "4", "5", "6", "7", "8">>
              => retval.value = <<"1", "3", "8", "*", "*", "*", "*", "5", "6", "7", "8">>

C23_Witness ==
    /\ PhoneMaskCase
    /\ call.value = <<"1", "3", "8", "1", "2", "3", "4", "5", "6", "7", "8">>
    /\ retval.value = <<"1", "3", "8", "*", "*", "*", "*", "5", "6", "7", "8">>

\* A leaf the masking path cannot parse or transform.
CannotTransform(leaf, has_docx) ==
    \/ leaf.ext = ".docx" /\ (~leaf.readable \/ ~has_docx)
    \/ leaf.ext \in {".xlsx", ".xls"} /\ ~leaf.readable
    \/ leaf.ext \notin TextExts \cup {".docx", ".xlsx", ".xls"}

\* C13: masking a zip passes a leaf that cannot be parsed or transformed
\* through unmodified, still masks every other leaf, and raises nothing.
C13_FailingLeafPassedThrough ==
    retval.fn = "zip" =>
        /\ ~retval.raised
        /\ \A i \in 1..Len(call.leaves) :
             IF CannotTransform(call.leaves[i], call.has_docx)
             THEN retval.leaves[i] = "unmodified"
             ELSE call.leaves[i].pii => retval.leaves[i] = "masked"

\* The length a masked result's mask adds to the text.
MaskGrowth(text, m) ==
    Len(MaskValue(m.entity_type, PySlice(text, m.start, m.end))) - (m.end - m.start)

\* Where the character at index p (from 0) of the text is in the output: p
\* moved by the growth of the masks before it.
RECURSIVE ShiftAt(_, _, _)
ShiftAt(text, masked, p) ==
    IF masked = <<>> THEN 0
    ELSE (IF masked[1].end <= p THEN MaskGrowth(text, masked[1]) ELSE 0)
         + ShiftAt(text, Tail(masked), p)

\* C17: masking changes only the characters inside the spans it masks: the
\* masked spans are in ascending start order and do not overlap, a result
\* is left out exactly when it overlaps a masked span that starts no later,
\* every character outside the masked spans is in the output, unchanged and
\* in order, and each masked span is replaced by its mask.
C17_MaskingChangesOnlyMaskedSpans ==
    retval.fn = "mask" =>
        LET text == call.text
            masked == retval.masked
            InMasked(r) == \E k \in 1..Len(masked) : masked[k] = r
        IN  /\ \A i, j \in 1..Len(masked) :
                 i < j => masked[i].end <= masked[j].start
            /\ \A k \in 1..Len(masked) :
                 \E i \in 1..Len(call.results) : call.results[i] = masked[k]
            /\ \A i \in 1..Len(call.results) :
                 ~InMasked(call.results[i])
                     => \E k \in 1..Len(masked) :
                            /\ masked[k].start <= call.results[i].start
                            /\ call.results[i].start < masked[k].end
            /\ Len(retval.text) = Len(text) + ShiftAt(text, masked, Len(text))
            /\ \A p \in 0..(Len(text) - 1) :
                 (\A k \in 1..Len(masked) :
                      ~(masked[k].start <= p /\ p < masked[k].end))
                     => retval.text[p + ShiftAt(text, masked, p) + 1] = text[p + 1]
            /\ \A k \in 1..Len(masked) :
                 LET m == masked[k]
                     mask == MaskValue(m.entity_type, PySlice(text, m.start, m.end))
                     at == m.start + ShiftAt(text, masked, m.start)
                 IN  SubSeq(retval.text, at + 1, at + Len(mask)) = mask

\* Of two overlapping results the first is masked and the second is skipped.
C17_Witness ==
    /\ retval.fn = "mask"
    /\ Len(call.results) = 2
    /\ call.results[2].start < call.results[1].start
    /\ call.results[1].start < call.results[2].end
    /\ retval.masked = <<call.results[2]>>
    /\ retval.text # call.text

(***************************************************************************)
(* Batch processing (backend/core/processors/file_processor.py).           *)
(*                                                                         *)
(* process_files and process_directory submit process_file for every       *)
(* document to a ThreadPoolExecutor and collect the futures as they        *)
(* complete.  For a document, process_file returns a result ("ok"),        *)
(* returns a result with its error set ("error": the file is missing or    *)
(* too large, or extraction failed inside the try), or raises ("raise":    *)
(* path.exists() or path.stat() raising before the try).                   *)
(***************************************************************************)
MaxDocs == 3       \* documents of one batch
MaxWorkers == 2    \* FileProcessor.max_workers

Outcomes == {"ok", "error", "raise"}

\* The documents whose future is in state s.
DocsIn(s) == {i \in 1..Len(batch.docs) : batch.future[i] = s}

\* ProcessedFile of document i
ProcessedFile(i, error) == [doc |-> i, error |-> error]

\* The except branch of the collecting loop: process_directory yields a
\* ProcessedFile carrying the error, process_files only logs.
ExceptYields(mode, i) ==
    IF mode = "directory" THEN <<ProcessedFile(i, TRUE)>> ELSE <<>>

\* A worker thread takes the next queued call of process_file.
worker_start ==
    /\ batch.mode # "none"
    /\ DocsIn("queued") # {}
    /\ Cardinality(DocsIn("running")) < MaxWorkers
    /\ LET i == CHOOSE k \in DocsIn("queued") : \A j \in DocsIn("queued") : k <= j
       IN  batch' = [batch EXCEPT !.future[i] = "running"]
    /\ UNCHANGED <<callVars, bootVars, threadVars, engine, analyzeVars, rulesVars, riskVars>>

\* process_file returns or raises: the future is done.
worker_finish(i) ==
    /\ batch.mode # "none"
    /\ i \in DocsIn("running")
    /\ batch' = [batch EXCEPT !.future[i] = "finished"]
    /\ UNCHANGED <<callVars, bootVars, threadVars, engine, analyzeVars, rulesVars, riskVars>>

\* One turn of "for future in as_completed(futures)".
collect(i) ==
    /\ batch.mode # "none"
    /\ i \in DocsIn("finished")
    /\ batch' = [batch EXCEPT
                   !.future[i] = "collected",
                   !.yielded = @ \o
                       (CASE batch.docs[i] = "ok" -> <<ProcessedFile(i, FALSE)>>
                          [] batch.docs[i] = "error" -> <<ProcessedFile(i, TRUE)>>
                          [] OTHER -> ExceptYields(batch.mode, i))]
    /\ UNCHANGED <<callVars, bootVars, threadVars, engine, analyzeVars, rulesVars, riskVars>>

InitBatch ==
    /\ EngineIdle
    /\ CoreIdle
    /\ CallIdle /\ BootIdle /\ ThreadsIdle
    /\ \E mode \in {"files", "directory"} :
       \E docs \in SeqsUpTo(Outcomes, MaxDocs) :
         batch = [mode |-> mode, docs |-> docs,
                  future |-> [i \in 1..Len(docs) |-> "queued"],
                  yielded |-> <<>>]

NextBatch ==
    \/ worker_start
    \/ \E i \in 1..MaxDocs : worker_finish(i)
    \/ \E i \in 1..MaxDocs : collect(i)

SpecBatch == InitBatch /\ [][NextBatch]_vars

\* The batch is over: every future was collected.
BatchDone ==
    /\ batch.mode # "none"
    /\ \A i \in 1..Len(batch.docs) : batch.future[i] = "collected"

\* C14: a batch yields exactly one result per input document, and a document
\* whose processing raised yields an error result of its own.
C14_OneResultPerDocument ==
    BatchDone =>
        \A i \in 1..Len(batch.docs) :
            /\ Cardinality({k \in 1..Len(batch.yielded) : batch.yielded[k].doc = i}) = 1
            /\ batch.docs[i] = "raise"
                   => \E k \in 1..Len(batch.yielded) :
                          batch.yielded[k] = ProcessedFile(i, TRUE)

(***************************************************************************)
(* Start-up: RulesManager._load_rules, then RecognizerRegistryProvider     *)
(* .create, then the service answers /analyze.                             *)
(*                                                                         *)
(* An entry of all_rules.yaml is well formed ("ok"), has a regex that does *)
(* not compile ("bad_regex"), has a pattern that is no mapping, so that    *)
(* Rule.from_dict raises ("bad_entry"), or has a pattern whose text is no  *)
(* valid YAML, so that yaml.safe_load raises ("bad_yaml").                 *)
(***************************************************************************)
MaxRules == 2    \* entries of all_rules.yaml

EntryNames == <<"rule_1", "rule_2", "rule_3", "rule_4">>

Entry(i, kind, source, enabled) ==
    [kind |-> kind,
     rule |-> [Rule(EntryNames[i], "MY_ENTITY",
                    <<PatternConfig(IF kind = "bad_regex" THEN "(" ELSE "a+")>>,
                    source)
               EXCEPT !.enabled = enabled]]

\* The loop of _load_rules from entry i on: from_dict raising leaves the loop.
RECURSIVE LoadFrom(_, _, _)
LoadFrom(entries, i, loaded) ==
    IF i > Len(entries) THEN loaded
    ELSE IF entries[i].kind = "bad_entry" THEN loaded
    ELSE LoadFrom(entries, i + 1, With(loaded, entries[i].rule.name, entries[i].rule))

\* RulesManager._load_rules: safe_load raising loads nothing.
LoadRules(entries) ==
    IF \E i \in 1..Len(entries) : entries[i].kind = "bad_yaml" THEN <<>>
    ELSE LoadFrom(entries, 1, <<>>)

\* Pattern(name, regex, score): a malformed regex fails when the recognizer
\* is created.
PatternConstructs(pattern) == RegexCompiles(pattern.regex)

\* _create_recognizer_from_rule
Recognizer(rule) ==
    [name |-> rule.name, entity_type |-> rule.entity_type, patterns |-> rule.patterns]

\* _add_builtin_recognizers: the recognizer classes.
BuiltinRecognizers ==
    { [name |-> type, entity_type |-> type, patterns |-> <<PatternConfig("a+")>>] :
        type \in {"CN_ID_CARD", "CN_PHONE", "CN_BANK_CARD"} }

\* _add_custom_recognizers: a rule whose recognizer cannot be created is
\* logged and left out.
CustomRecognizers(loaded) ==
    { Recognizer(loaded[n]) :
        n \in { m \in DOMAIN loaded :
                  /\ ~IsBuiltin(loaded[m])
                  /\ loaded[m].enabled
                  /\ \A k \in 1..Len(loaded[m].patterns) :
                         PatternConstructs(loaded[m].patterns[k]) } }

load_rules ==
    /\ pc = "load"
    /\ rules' = LoadRules(rules_file)
    /\ pc' = "register"
    /\ UNCHANGED <<req, backend, verifier, out, ret, riskVars, rules_file, registry,
                   callVars, batch, threadVars, engine>>

create_registry ==
    /\ pc = "register"
    /\ registry' = BuiltinRecognizers \cup CustomRecognizers(rules)
    /\ pc' = "serve"
    /\ UNCHANGED <<req, backend, verifier, out, rulesVars, riskVars, rules_file,
                   callVars, batch, threadVars, engine>>

\* A live /analyze call runs every registered pattern: a pattern that does
\* not compile raises there.
analyze_live ==
    /\ pc = "serve"
    /\ out' = [NoOutput EXCEPT
                 !.error = \E r \in registry : \E k \in 1..Len(r.patterns) :
                               ~RegexCompiles(r.patterns[k].regex)]
    /\ pc' = "served"
    /\ UNCHANGED <<req, backend, verifier, rulesVars, riskVars, bootVars,
                   callVars, batch, threadVars, engine>>

RulesFiles ==
    UNION { { [i \in 1..n |-> Entry(i, f[i][1], f[i][2], f[i][3])] :
                f \in [1..n -> {"ok", "bad_regex", "bad_entry", "bad_yaml"}
                                 \X {"builtin", "custom"} \X BOOLEAN] } :
            n \in 0..MaxRules }

InitBoot ==
    /\ EngineIdle
    /\ pc = "load"
    /\ req = Request(<<>>, 0, FALSE)
    /\ backend = <<>>
    /\ verifier = NoVerifier
    /\ out = NoOutput
    /\ rules = RulesIdle
    /\ ret = RetIdle
    /\ file_results = FileResultsIdle
    /\ report = ReportIdle
    /\ CallIdle /\ BatchIdle /\ ThreadsIdle
    /\ rules_file \in RulesFiles
    /\ registry = {}

NextBoot == load_rules \/ create_registry \/ analyze_live

SpecBoot == InitBoot /\ [][NextBoot]_vars

\* C15: a rule with a malformed pattern fails at load time, never in a live
\* analysis call, and only that rule's recognizer is lost: every well-formed
\* rule of the file is loaded, every well-formed enabled custom rule and
\* every builtin recognizer is registered.
C15_MalformedPatternConfined ==
    /\ pc \in {"serve", "served"} =>
         /\ \A i \in 1..Len(rules_file) :
              rules_file[i].kind = "ok" =>
                /\ rules_file[i].rule.name \in DOMAIN rules
                /\ (rules_file[i].rule.source = "custom" /\ rules_file[i].rule.enabled)
                       => Recognizer(rules_file[i].rule) \in registry
         /\ BuiltinRecognizers \subseteq registry
    /\ pc = "served" => ~out.error

(***************************************************************************)
(* verify_single called from several threads on one verifier               *)
(* (APILLMVerifier._get_client, LocalLLMVerifier._load_model).  A thread   *)
(* step is one read or one write of an attribute of the shared verifier.   *)
(***************************************************************************)
MaxThreads == 2        \* threads inside verify_single at once

\* self._client = None / self._model = None, self._tokenizer = None
NoClient(kind, import_ok) ==
    [kind |-> kind, import_ok |-> import_ok,
     _client |-> 0, _model |-> 0, _tokenizer |-> 0]

\* The attribute whose being None starts the lazy creation.
Guard(kind) == IF kind = "api" THEN "_client" ELSE "_model"

LoadOrderModelFirst == <<"_model", "_tokenizer">>
\* _load_model assigns self._tokenizer, then self._model.
LoadOrder == <<"_tokenizer", "_model">>

\* The attributes the lazy creation assigns, in the order it assigns them.
Assigns(kind) == IF kind = "api" THEN <<"_client">> ELSE LoadOrder

\* The attributes the call reads once _get_client / _load_model returns.
Reads(kind) == IF kind = "api" THEN {"_client"} ELSE {"_model", "_tokenizer"}

Thread(original_score, reply) ==
    [pc |-> "check", original_score |-> original_score, reply |-> reply,
     assigned |-> 0, verification |-> NoVerification]

Finished(th, reply) ==
    [th EXCEPT !.pc = "done",
               !.verification = VerifySingle(th.original_score, reply)]

\* if self._client is None: / if self._model is None:
check_loaded(t) ==
    /\ threads[t].pc = "check"
    /\ threads' = [threads EXCEPT ![t].pc =
                      IF client[Guard(client.kind)] = 0 THEN "create" ELSE "call"]
    /\ UNCHANGED <<client, analyzeVars, rulesVars, riskVars, callVars, batch, bootVars, engine>>

\* The import and the next assignment of the lazy creation; a missing library
\* raises ImportError, which verify_single catches.
create_client(t) ==
    /\ threads[t].pc = "create"
    /\ IF ~client.import_ok
       THEN /\ threads' = [threads EXCEPT ![t] = Finished(@, Raise("ImportError"))]
            /\ UNCHANGED client
       ELSE LET k == threads[t].assigned + 1
                order == Assigns(client.kind)
            IN  /\ client' = [client EXCEPT ![order[k]] = t]
                /\ threads' = [threads EXCEPT
                                 ![t].assigned = k,
                                 ![t].pc = IF k = Len(order) THEN "call" ELSE "create"]
    /\ UNCHANGED <<analyzeVars, rulesVars, riskVars, callVars, batch, bootVars, engine>>

\* return self._client / return self._model, self._tokenizer, and the call of
\* the backend with them: a None among them raises (TypeError), which
\* verify_single catches; otherwise the backend answers for this span.
call_llm(t) ==
    /\ threads[t].pc = "call"
    /\ threads' = [threads EXCEPT ![t] =
                     Finished(@, IF \E a \in Reads(client.kind) : client[a] = 0
                                 THEN Raise("TypeError")
                                 ELSE @.reply)]
    /\ UNCHANGED <<client, analyzeVars, rulesVars, riskVars, callVars, batch, bootVars, engine>>

SpanReplies ==
    { TextOf(<<Obj("true", "num", 8)>>), TextOf(<<Obj("false", "num", 8)>>),
      TextOf(<<Junk>>), Raise("APITimeoutError") }

InitThreads ==
    /\ EngineIdle
    /\ CoreIdle /\ CallIdle /\ BatchIdle /\ BootIdle
    /\ \E n \in 1..MaxThreads :
         threads \in [1..n -> {Thread(s, r) : s \in {3, 6}, r \in SpanReplies}]
    /\ client \in {NoClient(k, i) : k \in {"api", "local"}, i \in BOOLEAN}

NextThreads ==
    \E t \in DOMAIN threads : check_loaded(t) \/ create_client(t) \/ call_llm(t)

SpecThreads == InitThreads /\ [][NextThreads]_vars

\* verify_single of the span alone on a fresh verifier.
Alone(th) ==
    VerifySingle(th.original_score,
                 IF client.import_ok THEN th.reply ELSE Raise("ImportError"))

\* C18: in every interleaving of concurrent verify_single calls on one
\* verifier, the first calls that create the client or load the model
\* included, each span gets the outcome it gets when verified alone.
C18_ConcurrentAsAlone ==
    \A t \in DOMAIN threads :
        threads[t].pc = "done" => threads[t].verification = Alone(threads[t])

\* Two threads both found the model not loaded, both loaded it, and one of
\* them got a verdict that drops its span.
C18_Witness ==
    /\ client.kind = "local"
    /\ \E t, u \in DOMAIN threads :
         /\ t # u
         /\ threads[t].pc = "done" /\ threads[u].pc = "done"
         /\ threads[t].assigned = 2 /\ threads[u].assigned = 2
         /\ threads[t].verification.is_sensitive = "false"
         /\ threads[u].verification.is_sensitive = "true"

(***************************************************************************)
(* ArchiveHandler.extract_all (backend/core/processors/archive_handler.py) *)
(* The generators of extract_all and _extract_zip are run as a stack of    *)
(* frames: the archive, its depth and the member reached (0: just called). *)
(***************************************************************************)
MaxNesting == 3        \* archives nested inside the archive handed in
MaxDepthLimit == 3     \* the max_depth the handler is built with

File == [kind |-> "file", members |-> <<>>]
\* A member that is a copy of the archive handed in (an archive holding itself).
Self == [kind |-> "self", members |-> <<>>]
Archive(members) == [kind |-> "archive", members |-> members]

\* The archive a member is once it is extracted.
Extracted(member) == IF member.kind = "self" THEN call.archive ELSE member

Frame(archive, depth, i) == [archive |-> archive, depth |-> depth, i |-> i]

DepthReachedLate(depth, max_depth) == depth > max_depth
\* if depth >= self.max_depth: return
DepthReached(depth, max_depth) == depth >= max_depth

Top == retval.stack[Len(retval.stack)]
Pop == SubSeq(retval.stack, 1, Len(retval.stack) - 1)

\* extract_all up to the call of _extract_zip
extract_all ==
    /\ call.fn = "extract_all"
    /\ retval.stack # <<>>
    /\ Top.i = 0
    /\ IF DepthReached(Top.depth, call.max_depth)
       THEN retval' = [retval EXCEPT !.stack = Pop]
       ELSE retval' = [retval EXCEPT
                         !.stack = Pop \o <<Frame(Top.archive, Top.depth, 1)>>,
                         !.opened = @ \cup {Top.depth}]
    /\ UNCHANGED <<call, batch, bootVars, threadVars, engine, analyzeVars, rulesVars, riskVars>>

\* One turn of the loop of _extract_zip: a nested archive is handed to
\* extract_all at depth + 1, any other member is yielded.
extract_member ==
    /\ call.fn = "extract_all"
    /\ retval.stack # <<>>
    /\ Top.i \in 1..Len(Top.archive.members)
    /\ LET member == Top.archive.members[Top.i]
           next == Frame(Top.archive, Top.depth, Top.i + 1)
       IN  IF call.recursive /\ member.kind # "file"
           THEN retval' = [retval EXCEPT
                             !.stack = Pop \o <<next, Frame(Extracted(member),
                                                            Top.depth + 1, 0)>>]
           ELSE retval' = [retval EXCEPT !.stack = Pop \o <<next>>,
                                         !.yielded = @ + 1]
    /\ UNCHANGED <<call, batch, bootVars, threadVars, engine, analyzeVars, rulesVars, riskVars>>

\* The loop of _extract_zip is over.
extract_return ==
    /\ call.fn = "extract_all"
    /\ retval.stack # <<>>
    /\ Top.i > Len(Top.archive.members)
    /\ retval' = [retval EXCEPT !.stack = Pop]
    /\ UNCHANGED <<call, batch, bootVars, threadVars, engine, analyzeVars, rulesVars, riskVars>>

\* k archives nested one inside the other around last, each between two files.
RECURSIVE Nested(_, _)
Nested(k, last) ==
    IF k = 0 THEN last ELSE Archive(<<File, Nested(k - 1, last), File>>)

Archives ==
    { Archive(<<Nested(k, last), File>>) :
        k \in 0..MaxNesting, last \in {File, Self, Archive(<<>>)} }

InitExtract ==
    /\ EngineIdle
    /\ CoreIdle
    /\ BatchIdle /\ BootIdle /\ ThreadsIdle
    /\ call \in { [fn |-> "extract_all", archive |-> a, max_depth |-> d,
                   recursive |-> r] :
                    a \in Archives, d \in 0..MaxDepthLimit, r \in BOOLEAN }
    /\ retval = [fn |-> "extract_all", stack |-> <<Frame(call.archive, 0, 0)>>,
                 opened |-> {}, yielded |-> 0]

NextExtract == extract_all \/ extract_member \/ extract_return

SpecExtract == InitExtract /\ [][NextExtract]_vars

\* The generator is run to its end by whoever iterates it.
SpecExtractFair == SpecExtract /\ WF_vars(NextExtract)

\* C25: recursive extraction always terminates, and no archive nested at a
\* depth of max_depth or more is extracted, whatever the nesting.
C25_ExtractionBounded ==
    /\ [](\A d \in retval.opened : d < call.max_depth)
    /\ [](\A k \in 1..Len(retval.stack) : retval.stack[k].depth <= call.max_depth)
    /\ <>(retval.stack = <<>>)

\* An archive that holds itself was extracted down to the last level allowed,
\* the copy below it was refused, and the extraction is over.
C25_Witness ==
    /\ call.fn = "extract_all"
    /\ call.archive = Archive(<<Self, File>>)
    /\ call.max_depth = 2
    /\ retval.opened = {0, 1}
    /\ retval.yielded = 2
    /\ retval.stack = <<>>

(***************************************************************************)
(* The engine and its run-time configuration (backend/main.py,             *)
(* backend/config/__init__.py, backend/core/llm_integration.py,            *)
(* backend/core/providers.py).                                             *)
(*   engine.file      settings.yaml                                        *)
(*   engine.settings  the global Settings object                           *)
(*   engine.manager   the LLMManager; its settings are the Settings object *)
(*                    it was created with, which is the global one as long *)
(*                    as engine.shared                                     *)
(*   engine.provider  engine_provider: its verifier and its registry       *)
(***************************************************************************)
RecognizerNames == {"CN_PHONE", "CN_ID_CARD"}

\* A verifier: its class and what it was constructed with.
VerifierOf(kind, default_is_sensitive, default_confidence, key) ==
    [kind |-> kind, default_is_sensitive |-> default_is_sensitive,
     default_confidence |-> default_confidence, key |-> key]
NoneVerifier == VerifierOf("none", TRUE, 0, "")
\* create_verifier(mode="mock"): MockLLMVerifier's defaults, True and 0.8
MockDefault == VerifierOf("mock", TRUE, 8, "")

\* LLMManager._config
NoConfig == [kind |-> "none", default_is_sensitive |-> TRUE,
             default_confidence |-> 0, key |-> ""]

\* Settings.is_recognizer_enabled
IsRecognizerEnabled(settings, name) ==
    IF name \in settings.recognizers.disabled THEN FALSE
    ELSE IF settings.recognizers.enabled = {} THEN TRUE
    ELSE name \in settings.recognizers.enabled

\* RecognizerRegistryProvider._add_builtin_recognizers
BuiltinRegistry(settings) ==
    {name \in RecognizerNames : IsRecognizerEnabled(settings, name)}

\* LlmVerifierProvider.create
ProviderVerifier(settings) ==
    LET config == settings.llm_verifier
    IN  IF ~config.enabled THEN NoneVerifier
        ELSE IF config.mode = "api"
        THEN IF config.api_key = "" THEN MockDefault
             ELSE VerifierOf("api", TRUE, 0, config.api_key)
        ELSE IF config.mode = "local"
        THEN IF config.model_path = "" THEN MockDefault
             ELSE VerifierOf("local", TRUE, 0, config.model_path)
        ELSE MockDefault

\* LLMManager.get_verifier when self._verifier is None
ManagerVerifier(manager, settings) ==
    LET config == settings.llm_verifier
        own == manager.config
    IN  IF manager.mode = "api"
        THEN LET api_key == IF own.kind = "api" /\ own.key # "" THEN own.key
                            ELSE config.api_key
             IN  IF api_key = "" THEN MockDefault
                 ELSE VerifierOf("api", TRUE, 0, api_key)
        ELSE IF manager.mode = "local"
        THEN LET model_path == IF own.kind = "local" /\ own.key # "" THEN own.key
                               ELSE config.model_path
             IN  IF model_path = "" THEN MockDefault
                 ELSE VerifierOf("local", TRUE, 0, model_path)
        ELSE VerifierOf("mock",
                        IF own.kind = "mock" THEN own.default_is_sensitive ELSE TRUE,
                        IF own.kind = "mock" THEN own.default_confidence ELSE 8, "")

\* get_llm_manager: the manager is created at the first call, with the
\* global Settings object of that moment.
GetLlmManager ==
    IF engine.manager.created THEN engine
    ELSE [engine EXCEPT !.shared = TRUE,
                        !.manager = [created |-> TRUE,
                                     mode |-> engine.settings.llm_verifier.mode,
                                     config |-> NoConfig,
                                     settings |-> engine.settings]]

\* A write to the manager's Settings object, which may be the global one.
WithManagerSettings(e, settings) ==
    [e EXCEPT !.manager.settings = settings,
              !.settings = IF e.shared THEN settings ELSE @]

\* configure_mock_llm, configure_api_llm, configure_local_llm: the manager's
\* configure_* and engine_provider._verifier = manager.get_verifier()
configure_llm(config) ==
    /\ engine.state = "up"
    /\ LET e1 == GetLlmManager
           settings == [e1.manager.settings EXCEPT
                          !.llm_verifier.mode = config.kind,
                          !.llm_verifier.api_key =
                              IF config.kind = "api" THEN config.key ELSE @,
                          !.llm_verifier.model_path =
                              IF config.kind = "local" THEN config.key ELSE @]
           e2 == WithManagerSettings(
                    [e1 EXCEPT !.manager.mode = config.kind,
                               !.manager.config = config], settings)
           created == ManagerVerifier(e2.manager, e2.manager.settings)
       IN  engine' = [e2 EXCEPT !.provider.verifier = created,
                                !.configured = VerifierOf(config.kind,
                                                   config.default_is_sensitive,
                                                   config.default_confidence,
                                                   config.key),
                                !.analyzed = FALSE,
                                !.used = NoneVerifier, !.produced = {}]
    /\ UNCHANGED <<analyzeVars, rulesVars, riskVars, callVars, batch, bootVars,
                   threadVars>>

\* reload_llm: manager.reload() and engine_provider._verifier =
\* manager.get_verifier()
reload_llm ==
    /\ engine.state = "up"
    /\ LET e1 == GetLlmManager
           e2 == WithManagerSettings(
                    [e1 EXCEPT !.manager.mode = engine.file.llm_verifier.mode],
                    engine.file)
       IN  engine' = [e2 EXCEPT !.provider.verifier =
                                    ManagerVerifier(e2.manager, e2.manager.settings),
                                !.configured = NoneVerifier,
                                !.analyzed = FALSE,
                                !.used = NoneVerifier, !.produced = {}]
    /\ UNCHANGED <<analyzeVars, rulesVars, riskVars, callVars, batch, bootVars,
                   threadVars>>

\* init_engine: a new Settings object read from the file, a new provider.
InitEngine(e) ==
    [e EXCEPT !.settings = e.file,
              !.shared = FALSE,
              !.provider = [verifier |-> ProviderVerifier(e.file),
                            registry |-> BuiltinRegistry(e.file)],
              !.analyzed = FALSE, !.used = NoneVerifier, !.produced = {}]

\* A rule change (add, update, delete) or POST /reload: init_engine()
init_engine ==
    /\ engine.state = "up"
    /\ engine' = InitEngine(engine)
    /\ UNCHANGED <<analyzeVars, rulesVars, riskVars, callVars, batch, bootVars,
                   threadVars>>

\* PUT /recognizers/{name}: Settings.update_recognizer (which saves the
\* settings to the file) and init_engine()
update_recognizer(name, enabled) ==
    /\ engine.state = "up"
    /\ LET settings == [engine.settings EXCEPT
                          !.recognizers.settings[name] =
                              IF enabled THEN "true" ELSE "false"]
           e1 == [engine EXCEPT !.settings = settings,
                                !.manager.settings = IF engine.shared THEN settings ELSE @,
                                !.file = settings]
       IN  engine' = InitEngine(e1)
    /\ UNCHANGED <<analyzeVars, rulesVars, riskVars, callVars, batch, bootVars,
                   threadVars>>

\* POST /analyze with use_llm_verify: the registered recognizers produce the
\* results and engine_provider.verifier verifies them.
analyze_request ==
    /\ engine.state = "up"
    /\ ~engine.analyzed
    /\ engine' = [engine EXCEPT !.analyzed = TRUE,
                                !.used = engine.provider.verifier,
                                !.produced = engine.provider.registry]
    /\ UNCHANGED <<analyzeVars, rulesVars, riskVars, callVars, batch, bootVars,
                   threadVars>>

LlmConfigs ==
    { [kind |-> "mock", default_is_sensitive |-> is, default_confidence |-> c,
       key |-> ""] : is \in BOOLEAN, c \in {3} }
    \cup { [kind |-> "api", default_is_sensitive |-> TRUE, default_confidence |-> 0,
            key |-> "sk-1"],
           [kind |-> "local", default_is_sensitive |-> TRUE, default_confidence |-> 0,
            key |-> "/models/m"] }

\* settings.yaml as the installation finds it.
SettingsFiles ==
    { [llm_verifier |-> [enabled |-> en, mode |-> mode,
                         api_key |-> IF mode = "api" THEN "sk-0" ELSE "",
                         model_path |-> ""],
       recognizers |-> [enabled |-> {}, disabled |-> disabled,
                        settings |-> [n \in RecognizerNames |-> "absent"]]] :
        en \in BOOLEAN, mode \in {"mock", "api"}, disabled \in {{}, {"CN_ID_CARD"}} }

\* The application after its start-up: init_engine has run once.
InitEngineUp ==
    /\ CoreIdle /\ CallIdle /\ BatchIdle /\ BootIdle /\ ThreadsIdle
    /\ \E file \in SettingsFiles :
         engine = [state |-> "up", file |-> file, settings |-> file, shared |-> FALSE,
                   manager |-> [created |-> FALSE, mode |-> "mock", config |-> NoConfig,
                                settings |-> file],
                   provider |-> [verifier |-> ProviderVerifier(file),
                                 registry |-> BuiltinRegistry(file)],
                   configured |-> NoneVerifier,
                   analyzed |-> FALSE, used |-> NoneVerifier, produced |-> {}]

NextEngine ==
    \/ \E config \in LlmConfigs : configure_llm(config)
    \/ reload_llm
    \/ init_engine
    \/ \E name \in RecognizerNames, enabled \in BOOLEAN : update_recognizer(name, enabled)
    \/ analyze_request

SpecEngine == InitEngineUp /\ [][NextEngine]_vars

\* C27: once a verification backend has been configured at run time, every
\* later analysis request uses a verifier with that configuration until the
\* next LLM configure or LLM reload call, engine re-initialisations included.
C27_ConfiguredVerifierKept ==
    (engine.state = "up" /\ engine.analyzed /\ engine.configured # NoneVerifier)
        => engine.used = engine.configured

\* C28: a builtin recognizer updated with enabled = false is, after the
\* engine is re-initialised, not registered and produces no results, until
\* it is updated with enabled = true.
C28_DisabledRecognizerSilent ==
    engine.state = "up" =>
        \A name \in RecognizerNames :
            engine.file.recognizers.settings[name] = "false" =>
                /\ name \notin engine.provider.registry
                /\ engine.analyzed => name \notin engine.produced

====
